---- MODULE Spec2Model ----
(***************************************************************************)
(* Interpreters of the ICFP term language of OMG-ICFP-FTW/icfp2024:        *)
(*   - problems/language_test/again.py : step-based reducer on a mutable   *)
(*     tree with parent pointers and substitution dictionaries             *)
(*   - problems/language_test/l3ng.py  : recursive evaluator on tuples     *)
(*   - the string codecs (again.py, icfp_lang/strings.py, language.py)     *)
(* A character is a one-character string; a Python str is a sequence of    *)
(* characters; a token is a non-empty str whose head is the indicator.     *)
(***************************************************************************)
EXTENDS Integers, Sequences, FiniteSets, TLC

VARIABLES
    heap,     \* again.py: the Node objects and substitution dicts
    root,     \* again.py: the node passed to evaluate
    pc,       \* again.py: position in evaluate ("call", "test", "done", "raise")
    ret,      \* again.py: what the last call of step returned / raised
    prog,     \* again.py: index of the parsed program
    last,     \* again.py: where and how the last call of step acted
    fresh,    \* again.py: the new_var names drawn so far, in order
    betas,    \* again.py: number of applications of a lambda via B$ so far
    text,     \* codecs: the str the codec functions are given
    val,      \* codecs: what the last codec function returned
    trace,    \* codecs: the codec functions called so far, in order
    l3src,    \* l3ng.py: the tokens given to ept
    l3pc,     \* l3ng.py: position in ept ("start", "done", "raise")
    l3out,    \* l3ng.py: what ept returned or raised
    arg,      \* functions: the argument of the first call
    out,      \* functions: what the last call returned or raised
    fns       \* functions: the functions called so far, in order

evalVars == <<heap, root, pc, ret, prog, last, fresh, betas>>
codecVars == <<text, val, trace>>
l3Vars == <<l3src, l3pc, l3out>>
funVars == <<arg, out, fns>>
vars == <<evalVars, codecVars, l3Vars, funVars>>

----------------------------------------------------------------------------
(* Characters and strings *)

\* chr(33) .. chr(126), in ASCII order (chr(96), the grave accent, is written "grave")
Ascii94 ==
    << "!", "\"", "#", "$", "%", "&", "'", "(", ")", "*", "+", ",", "-", ".", "/",
       "0", "1", "2", "3", "4", "5", "6", "7", "8", "9", ":", ";", "<", "=", ">",
       "?", "@", "A", "B", "C", "D", "E", "F", "G", "H", "I", "J", "K", "L", "M",
       "N", "O", "P", "Q", "R", "S", "T", "U", "V", "W", "X", "Y", "Z", "[", "\\",
       "]", "^", "_", "grave", "a", "b", "c", "d", "e", "f", "g", "h", "i", "j", "k",
       "l", "m", "n", "o", "p", "q", "r", "s", "t", "u", "v", "w", "x", "y", "z",
       "{", "|", "}", "~" >>

Range(s) == { s[i] : i \in DOMAIN s }

\* position of character c in sequence s (first occurrence), 0 when absent
IndexOf(c, s) ==
    IF c \in Range(s) THEN CHOOSE i \in DOMAIN s : s[i] = c /\ \A j \in 1..(i-1) : s[j] # c
    ELSE 0

\* Python: sub in s, for strings (substring test; the empty string is in every string)
InStr(sub, s) ==
    \E i \in 0..(Len(s) - Len(sub)) : SubSeq(s, i + 1, i + Len(sub)) = sub

Min(a, b) == IF a < b THEN a ELSE b
Max(a, b) == IF a > b THEN a ELSE b

\* Python: y[:x]
SliceTo(y, x) ==
    IF x >= 0 THEN SubSeq(y, 1, Min(x, Len(y)))
    ELSE SubSeq(y, 1, Max(Len(y) + x, 0))

\* y[x:] with x taken as the first position kept, counted from 1
SliceFromOne(y, x) == SubSeq(y, x, Len(y))

\* Python: y[x:]
SliceFrom(y, x) ==
    IF x >= 0 THEN SubSeq(y, Min(x, Len(y)) + 1, Len(y))
    ELSE SubSeq(y, Max(Len(y) + x, 0) + 1, Len(y))

\* Python: ord(c), for the characters of the model
Ord(c) == IF c = "\n" THEN 10 ELSE IF c = " " THEN 32 ELSE IndexOf(c, Ascii94) + 32

RECURSIVE c2b94Acc(_, _)
c2b94Acc(s, value) ==
    IF s = <<>> THEN value
    ELSE c2b94Acc(Tail(s), value * 94 + (Ord(Head(s)) - 33))

\* again.c2b94: base-94 digits, most significant first, '!' = 0
c2b94(s) == c2b94Acc(s, 0)

RECURSIVE b942cLeastFirst(_, _)
\* the while loop of b942c with each new digit put after the earlier ones
b942cLeastFirst(value, s) ==
    IF value = 0 THEN s
    ELSE b942cLeastFirst(value \div 94, s \o <<Ascii94[(value % 94) + 1]>>)

RECURSIVE b942cLoop(_, _)
\* while value: s = chr(value % 94 + 33) + s; value //= 94
b942cLoop(value, s) ==
    IF value = 0 THEN s
    ELSE b942cLoop(value \div 94, <<Ascii94[(value % 94) + 1]>> \o s)

\* again.b942c
b942c(value) == IF value = 0 THEN <<"!">> ELSE b942cLoop(value, <<>>)

\* l3ng.c2b94: the same loop as again.c2b94
l3c2b94(s) == c2b94Acc(s, 0)

\* l3ng.b942c: s = "" and the while loop, without a case for 0
l3b942c(value) == b942cLoop(value, <<>>)

\* chunkify.toint
toint(s) == c2b94Acc(s, 0)

\* chunkify.fromint: s = '' and the while loop, without a case for 0
fromint(value) == b942cLoop(value, <<>>)

\* Python: a // b for b # 0, the quotient rounded toward minus infinity
floordiv(a, b) == IF b > 0 THEN a \div b ELSE (-a) \div (-b)

\* Python: math.trunc(a / b) for b # 0 (exact while a / b is exact in floating point)
truncdiv(a, b) ==
    LET q == (IF a < 0 THEN -a ELSE a) \div (IF b < 0 THEN -b ELSE b)
    IN  IF (a < 0) = (b < 0) THEN q ELSE -q

truncmod(a, b) == a - b * truncdiv(a, b)

DecDigits == << "0", "1", "2", "3", "4", "5", "6", "7", "8", "9" >>

RECURSIVE StrOfNat(_)
\* Python: str(n) for n >= 0
StrOfNat(n) ==
    IF n < 10 THEN <<DecDigits[n + 1]>>
    ELSE StrOfNat(n \div 10) \o <<DecDigits[(n % 10) + 1]>>

----------------------------------------------------------------------------
(* The string codecs: again.py, icfp_lang/strings.py, icfp_lang/language.py *)

\* again.py: str_reference, the text character of each of chr(33), chr(34), ...
str_reference ==
    <<
       "a", "b", "c", "d", "e", "f", "g", "h", "i", "j", "k", "l", "m", "n", "o", "p",
       "q", "r", "s", "t", "u", "v", "w", "x", "y", "z", "A", "B", "C", "D", "E", "F",
       "G", "H", "I", "J", "K", "L", "M", "N", "O", "P", "Q", "R", "S", "T", "U", "V",
       "W", "X", "Y", "Z", "0", "1", "2", "3", "4", "5", "6", "7", "8", "9", "!", "\"",
       "#", "$", "%", "&", "'", "(", ")", "*", "+", ",", "-", ".", "/", ":", ";", "<",
       "=", ">", "?", "@", "[", "\\", "]", "^", "_", "grave", "|", "~", " ", "\n"
    >>

\* Python: dict(zip(keys, values)); of the pairs of one key the dict keeps the last
DictOfZip(keys, values) ==
    LET n == Min(Len(keys), Len(values))
    IN  [c \in { keys[i] : i \in 1..n } |->
            values[CHOOSE i \in 1..n : keys[i] = c /\ \A j \in (i + 1)..n : keys[j] # c]]

\* Python: s.translate(str.maketrans(map)); a character that is no key stays as it is
translate(s, map) ==
    [i \in DOMAIN s |-> IF s[i] \in DOMAIN map THEN map[s[i]] ELSE s[i]]

\* chr(k) for k in range(33, 33 + n)
ChrRange(n) == SubSeq(Ascii94, 1, n)

\* again.py: decode_map = {chr(k): v for (k, v) in zip(range(33, ...), str_reference)}
decode_map == DictOfZip(ChrRange(Len(str_reference)), str_reference)

\* again.py: encode_map = {v: k for (k, v) in decode_map.items()}
encode_map == DictOfZip(str_reference, ChrRange(Len(str_reference)))

\* decode with the keys of decode_map counted from 32: range(32, 32 + len(str_reference))
decodeFrom32(s) ==
    translate(s, DictOfZip(<<" ">> \o ChrRange(Len(str_reference) - 1), str_reference))

\* again.decode
decode(s) == translate(s, decode_map)

\* again.encode
encode(s) == translate(s, encode_map)

\* strings.py: target
target ==
    <<
       "a", "b", "c", "d", "e", "f", "g", "h", "i", "j", "k", "l", "m", "n", "o", "p",
       "q", "r", "s", "t", "u", "v", "w", "x", "y", "z", "A", "B", "C", "D", "E", "F",
       "G", "H", "I", "J", "K", "L", "M", "N", "O", "P", "Q", "R", "S", "T", "U", "V",
       "W", "X", "Y", "Z", "0", "1", "2", "3", "4", "5", "6", "7", "8", "9", "!", "\"",
       "#", "$", "%", "&", "'", "(", ")", "*", "+", ",", "-", ".", "/", ":", ";", "<",
       "=", ">", "?", "@", "[", "\\", "]", "^", "_", "grave", "|", "~", " ", "\n"
    >>

\* strings.py: decode_translation_table
decode_translation_table == DictOfZip(ChrRange(Len(target)), target)

\* strings.py: encode_translation_table
encode_translation_table == DictOfZip(target, ChrRange(Len(target)))

\* strings.decode: inpt[1:].translate(decode_translation_table)
strings_decode(inpt) == translate(SubSeq(inpt, 2, Len(inpt)), decode_translation_table)

\* strings.encode: 'S' + inpt.translate(encode_translation_table)
strings_encode(inpt) == <<"S">> \o translate(inpt, encode_translation_table)

\* language.decode: Program(Value(strings.decode(string)))
language_decode(string) == [expr |-> [val |-> strings_decode(string)]]

\* language.encode of a Program whose expr is a Value holding a str
language_encode(pgm) == strings_encode(pgm.expr.val)

\* lambdaman/rewrite.py: strmap, the same text as again.str_reference
strmap == str_reference

\* Python: seq[k], where a negative k counts from the end (IndexError outside
\* -len(seq) .. len(seq) - 1, which no character of the model reaches)
PyIndex(seq, k) == IF k >= 0 THEN seq[k + 1] ELSE seq[Len(seq) + k + 1]

\* strmap[ord(c) - 33] for each character of the model
strmapAt ==
    [c \in Range(Ascii94) \cup Range(str_reference) |-> PyIndex(strmap, Ord(c) - 33)]

\* rewrite.decode
rewrite_decode(s) == [i \in DOMAIN s |-> strmapAt[s[i]]]

----------------------------------------------------------------------------
(* again.py: the Node objects.  A node is an index into the fields of heap; *)
(* 0 is None.  A children list is never mutated in place, so it is held by *)
(* value; a substitutions dict is mutated in place and shared by reference, *)
(* so nodes hold the index of a dict in heap.dicts.  A dict is the sequence *)
(* of its <<key, value>> items in insertion order.                          *)

EmptyHeap ==
    [token |-> <<>>, children |-> <<>>, substitutions |-> <<>>, parent |-> <<>>,
     dicts |-> <<>>]

Nodes(H) == 1..Len(H.token)

indicator(H, n) == H.token[n][1]
body(H, n) == Tail(H.token[n])

RECURSIVE SetParents(_, _, _)
SetParents(par, ch, n) ==
    IF ch = <<>> THEN par
    ELSE SetParents([par EXCEPT ![Head(ch)] = n], Tail(ch), n)

\* Node(token, children) with __post_init__; the new node is Len(H.token) + 1
NewNode(H, token, children) ==
    LET n == Len(H.token) + 1
    IN  [H EXCEPT !.token = Append(@, token),
                  !.children = Append(@, children),
                  !.substitutions = Append(@, 0),
                  !.parent = SetParents(Append(@, 0), children, n)]

RECURSIVE parse(_, _)
RECURSIVE parseChildren(_, _, _)

\* the k calls parse(tokens) of a children list, left to right
parseChildren(H, tokens, k) ==
    IF k = 0 THEN [heap |-> H, nodes |-> <<>>, rest |-> tokens, err |-> "none"]
    ELSE LET first == parse(H, tokens)
         IN  IF first.err # "none"
             THEN [heap |-> first.heap, nodes |-> <<>>, rest |-> first.rest, err |-> first.err]
             ELSE LET others == parseChildren(first.heap, first.rest, k - 1)
                  IN  [others EXCEPT !.nodes = <<first.node>> \o @]

\* again.parse: the tree of the first term of tokens, and the tokens left over
parse(H, tokens) ==
    IF tokens = <<>> \/ Head(tokens) = <<>>
    THEN [heap |-> H, node |-> 0, rest |-> tokens, err |-> "AssertionError"]
    ELSE LET token == Head(tokens)
             arity == IF token[1] \in {"T", "F", "v", "I", "S"} THEN 0
                      ELSE IF token[1] \in {"U", "L"} THEN 1
                      ELSE IF token[1] \in {"B"} THEN 2
                      ELSE IF token[1] \in {"?"} THEN 3
                      ELSE -1
         IN  IF arity = -1
             THEN [heap |-> H, node |-> 0, rest |-> Tail(tokens), err |-> "ValueError"]
             ELSE LET sub == parseChildren(H, Tail(tokens), arity)
                  IN  IF sub.err # "none"
                      THEN [heap |-> sub.heap, node |-> 0, rest |-> sub.rest, err |-> sub.err]
                      ELSE [heap |-> NewNode(sub.heap, token, sub.nodes),
                            node |-> Len(sub.heap.token) + 1,
                            rest |-> sub.rest, err |-> "none"]

\* The recursions of isint, isbool, asint and asbool follow a chain of U- (U!)
\* nodes.  On a chain that is a cycle they never return (RecursionError); step
\* meets such a cycle in its loop over the children first, so their value there
\* is never used: seen only keeps the definition total.
RECURSIVE isintFrom(_, _, _)
isintFrom(H, n, seen) ==
    IF n \in seen THEN FALSE
    ELSE IF indicator(H, n) = "I" THEN TRUE
    ELSE IF H.token[n] = <<"U", "-">> THEN isintFrom(H, H.children[n][1], seen \cup {n})
    ELSE FALSE

\* Node.isint
isint(H, n) == isintFrom(H, n, {})

RECURSIVE isboolFrom(_, _, _)
isboolFrom(H, n, seen) ==
    IF n \in seen THEN FALSE
    ELSE IF H.token[n] \in {<<"T">>, <<"F">>} THEN TRUE
    ELSE IF H.token[n] = <<"U", "!">> THEN isboolFrom(H, H.children[n][1], seen \cup {n})
    ELSE FALSE

\* Node.isbool
isbool(H, n) == isboolFrom(H, n, {})

\* Node.isstr
isstr(H, n) == indicator(H, n) = "S"

RECURSIVE asint(_, _)
\* Node.asint, called only where isint holds
asint(H, n) ==
    IF indicator(H, n) = "I" THEN c2b94(body(H, n))
    ELSE - asint(H, H.children[n][1])

\* Python: not b, for the results of asbool
NotBool(b) == IF b = "True" THEN "False" ELSE IF b = "False" THEN "True" ELSE b

RECURSIVE asboolFrom(_, _, _)
asboolFrom(H, n, seen) ==
    IF n \in seen THEN "ValueError"
    ELSE IF H.token[n] = <<"T">> THEN "True"
    ELSE IF H.token[n] = <<"F">> THEN "False"
    ELSE IF H.token[n] = <<"U", "!">>
    THEN NotBool(asboolFrom(H, H.children[n][1], seen \cup {n}))
    ELSE "ValueError"

\* Node.asbool: "True", "False", or "ValueError" when it raises
asbool(H, n) == asboolFrom(H, n, {})

\* Node.asstr, called only where isstr holds
asstr(H, n) == body(H, n)

\* dict items d with d[key] = value (an existing key keeps its place)
DictSet(d, key, value) ==
    IF \E i \in DOMAIN d : d[i][1] = key
    THEN [i \in DOMAIN d |-> IF d[i][1] = key THEN <<key, value>> ELSE d[i]]
    ELSE Append(d, <<key, value>>)

RECURSIVE DictUpdate(_, _)
\* dict.update
DictUpdate(d, src) ==
    IF src = <<>> THEN d
    ELSE DictUpdate(DictSet(d, Head(src)[1], Head(src)[2]), Tail(src))

DictHas(d, key) == \E i \in DOMAIN d : d[i][1] = key
DictGet(d, key) == d[CHOOSE i \in DOMAIN d : d[i][1] = key][2]

\* the items of node n's substitutions (empty for None)
SubsOf(H, n) == IF H.substitutions[n] = 0 THEN <<>> ELSE H.dicts[H.substitutions[n]]

RECURSIVE lookupFrom(_, _, _, _)
\* Node.lookup: the value node, 0 for None, -1 when the parent chain is a cycle
\* (the recursion never returns: RecursionError)
lookupFrom(H, n, v, seen) ==
    IF n \in seen THEN -1
    ELSE IF DictHas(SubsOf(H, n), v) THEN DictGet(SubsOf(H, n), v)
    ELSE IF H.parent[n] # 0 THEN lookupFrom(H, H.parent[n], v, seen \cup {n})
    ELSE 0

lookup(H, n, v) == lookupFrom(H, n, v, {})

\* x and y, for the results "True", "False" and "RecursionError" of ==: y is
\* evaluated only where x is "True"
AndThen(x, y) == IF x = "True" THEN y ELSE x

RECURSIVE NodeEq(_, _, _, _)
RECURSIVE ElementsEq(_, _, _, _, _)
RECURSIVE ItemsEq(_, _, _, _, _)

\* list == list from element i on: the first pair that is not equal decides
ElementsEq(H, xs, ys, i, comparing) ==
    IF i > Len(xs) THEN "True"
    ELSE AndThen(NodeEq(H, xs[i], ys[i], comparing),
                 ElementsEq(H, xs, ys, i + 1, comparing))

\* dict == dict from item i of d on: e holds the key, with an equal value
ItemsEq(H, d, e, i, comparing) ==
    IF i > Len(d) THEN "True"
    ELSE IF ~DictHas(e, d[i][1]) THEN "False"
    ELSE AndThen(NodeEq(H, d[i][2], DictGet(e, d[i][1]), comparing),
                 ItemsEq(H, d, e, i + 1, comparing))

\* a == b of the dataclass Node (0 is None): the tuples (token, children,
\* substitutions, parent) compared item by item, an item that is the same
\* object being equal.  comparing holds the pairs whose comparison has not
\* returned yet: meeting one of them again is a recursion without end.
NodeEq(H, a, b, comparing) ==
    IF a = b THEN "True"
    ELSE IF a = 0 \/ b = 0 THEN "False"
    ELSE IF <<a, b>> \in comparing THEN "RecursionError"
    ELSE IF H.token[a] # H.token[b] THEN "False"
    ELSE IF Len(H.children[a]) # Len(H.children[b]) THEN "False"
    ELSE AndThen(ElementsEq(H, H.children[a], H.children[b], 1, comparing \cup {<<a, b>>}),
         AndThen(IF H.substitutions[a] = H.substitutions[b] THEN "True"
                 ELSE IF H.substitutions[a] = 0 \/ H.substitutions[b] = 0 THEN "False"
                 ELSE IF Len(SubsOf(H, a)) # Len(SubsOf(H, b)) THEN "False"
                 ELSE ItemsEq(H, SubsOf(H, a), SubsOf(H, b), 1, comparing \cup {<<a, b>>}),
                 NodeEq(H, H.parent[a], H.parent[b], comparing \cup {<<a, b>>})))

RECURSIVE checkFrom(_, _, _)
RECURSIVE checkChildren(_, _, _, _)

\* the loop of check over the children, from child i on
checkChildren(H, self, i, above) ==
    IF i > Len(H.children[self]) THEN "None"
    ELSE IF H.children[self][i] = self THEN "AssertionError"
    ELSE IF H.children[self][i] = H.parent[self] THEN "AssertionError"
    ELSE IF NodeEq(H, H.parent[H.children[self][i]], self, {}) = "False" THEN "AssertionError"
    ELSE IF NodeEq(H, H.parent[H.children[self][i]], self, {}) = "RecursionError"
    THEN "RecursionError"
    ELSE IF checkFrom(H, H.children[self][i], above \cup {self}) # "None"
    THEN checkFrom(H, H.children[self][i], above \cup {self})
    ELSE checkChildren(H, self, i + 1, above)

\* Node.check: "None" when it returns, else the exception it raises; above
\* holds the nodes whose check has not returned yet
checkFrom(H, self, above) ==
    IF self \in above THEN "RecursionError"
    ELSE IF H.parent[self] = self THEN "AssertionError"
    ELSE IF indicator(H, self) \in {"T", "F", "v", "I", "S"} /\ H.children[self] # <<>>
    THEN "AssertionError"
    ELSE IF H.children[self] = <<>> THEN "None"
    ELSE IF indicator(H, self) \in {"U", "L"} /\ Len(H.children[self]) # 1 THEN "AssertionError"
    ELSE IF indicator(H, self) = "B" /\ Len(H.children[self]) # 2 THEN "AssertionError"
    ELSE IF indicator(H, self) = "?" /\ Len(H.children[self]) # 3 THEN "AssertionError"
    ELSE IF indicator(H, self) \notin {"U", "L", "B", "?"} THEN "ValueError"
    ELSE checkChildren(H, self, 1, above)

\* Node.check
check(H, self) == checkFrom(H, self, {})

----------------------------------------------------------------------------
(* again.py: the mutations of Node *)

\* Node.replace(node) for a node of the heap: self takes node's substitutions
\* dict and children list (both shared, not copied) and its token
replace(H, self, node) ==
    [H EXCEPT !.substitutions[self] = H.substitutions[node],
              !.children[self] = H.children[node],
              !.parent = SetParents(@, H.children[node], self),
              !.token[self] = H.token[node]]

\* self.replace(Node(token)): a new leaf, dropped after the call
replaceLeaf(H, self, token) ==
    [H EXCEPT !.substitutions[self] = 0,
              !.children[self] = <<>>,
              !.token[self] = token]

\* self.replace(Node.fromint(value))
replaceInt(H, self, value) ==
    IF value >= 0 THEN replaceLeaf(H, self, <<"I">> \o b942c(value))
    ELSE LET H1 == NewNode(H, <<"I">> \o b942c(-value), <<>>)
             k  == Len(H.token) + 1
         IN  [H1 EXCEPT !.substitutions[self] = 0,
                        !.children[self] = <<k>>,
                        !.parent[k] = self,
                        !.token[self] = <<"U", "-">>]

RECURSIVE renameCalls(_, _, _, _)
RECURSIVE renameEach(_, _, _, _)

\* the calls child.rename(a, b) / value.rename(a, b) over a list of nodes
renameEach(H, nodes, a, stack) ==
    IF nodes = <<>> THEN <<>>
    ELSE renameCalls(H, Head(nodes), a, stack) \o renameEach(H, Tail(nodes), a, stack)

\* The nodes on which Node.rename(a, b) is called, in call order, starting at
\* self: the node, then (unless it is a lambda binding a again) its children
\* and the values of its substitutions.  rename changes v tokens only, so the
\* lists, dicts and L tokens it walks are those of H.  A node met again on the
\* open call chain makes the recursion endless; that point is marked 0.
renameCalls(H, self, a, stack) ==
    IF self \in stack THEN <<0>>
    ELSE IF indicator(H, self) = "L" /\ body(H, self) = Tail(a)
    THEN <<self>>   \* Stop renaming at next lambda boundary which matches
    ELSE <<self>>
         \o renameEach(H, H.children[self], a, stack \cup {self})
         \o renameEach(H, [i \in DOMAIN SubsOf(H, self) |-> SubsOf(H, self)[i][2]],
                       a, stack \cup {self})

\* the calls made before the recursion becomes endless (all of them if it never does)
Reached(calls) ==
    { calls[i] : i \in { j \in DOMAIN calls : \A k \in 1..j : calls[k] # 0 } }

\* Node.rename: [heap, err].  An endless recursion ends in RecursionError with
\* the tokens renamed so far kept.
rename(H, self, a, b) ==
    IF ~(a[1] = "v" /\ Len(a) > 1) \/ ~(b[1] = "v" /\ Len(b) > 1) \/ a = b
    THEN [heap |-> H, err |-> "AssertionError"]
    ELSE [heap |-> [H EXCEPT !.token =
                        [n \in DOMAIN H.token |->
                            IF n \in Reached(renameCalls(H, self, a, {})) /\ H.token[n] = a
                            THEN b ELSE H.token[n]]],
          err |-> IF 0 \in Range(renameCalls(H, self, a, {}))
                  THEN "RecursionError" ELSE "none"]

\* the first loop of Node.supdate for one node of nodes
supdateFrom(H, self, node) ==
    IF SubsOf(H, node) = <<>> THEN H
    ELSE LET H1 == IF H.substitutions[self] = 0
                   THEN [H EXCEPT !.dicts = Append(@, <<>>),
                                  !.substitutions[self] = Len(H.dicts) + 1]
                   ELSE H
             d  == H1.substitutions[self]
         IN  [H1 EXCEPT !.dicts[d] = DictUpdate(@, SubsOf(H1, node))]

\* Node.supdate([n1, n2], new_var, replacement)
supdate(H, self, n1, n2, new_var, replacement) ==
    LET H1 == supdateFrom(supdateFrom(H, self, n1), self, n2)
        H2 == IF H1.substitutions[self] = 0
              THEN [H1 EXCEPT !.dicts = Append(@, <<>>),
                              !.substitutions[self] = Len(H1.dicts) + 1]
              ELSE H1
        d  == H2.substitutions[self]
    IN  [H2 EXCEPT !.dicts[d] = DictSet(@, new_var, replacement)]

----------------------------------------------------------------------------
(* again.step.  A call of step changes nothing until it returns True or     *)
(* raises, so it is modelled as the search for the node where it acts       *)
(* (children first, left to right) followed by the mutation at that node.   *)

NoStep == [kind |-> "none"]
Raise(n, path, err) == [kind |-> "raise", at |-> n, path |-> path, err |-> err]
Act(n, path, rule) == [kind |-> "act", at |-> n, path |-> path, rule |-> rule]

\* step(node) after the loop over the children, for indicator 'B'
stepBinary(H, n, path) ==
    LET left  == H.children[n][1]
        right == H.children[n][2]
        bd    == body(H, n)
    IN  IF InStr(bd, <<"$">>)
        THEN IF indicator(H, left) # "L" THEN NoStep ELSE Act(n, path, "apply")
        ELSE IF InStr(bd, <<"+", "-", "*", "/", "%">>)
        THEN IF ~isint(H, left) \/ ~isint(H, right) THEN NoStep
             ELSE IF H.token[n] \notin {<<"B", "+">>, <<"B", "-">>, <<"B", "/">>,
                                        <<"B", "%">>, <<"B", "*">>}
             THEN Raise(n, path, "NotImplementedError")
             ELSE IF bd \in {<<"/">>, <<"%">>} /\ asint(H, right) = 0
             THEN Raise(n, path, "ZeroDivisionError")
             ELSE Act(n, path, "arithmetic")
        ELSE IF InStr(bd, <<"&", "|">>)
        THEN IF asbool(H, left) = "ValueError" \/ asbool(H, right) = "ValueError"
             THEN Raise(n, path, "ValueError")
             ELSE IF H.token[n] \notin {<<"B", "&">>, <<"B", "|">>}
             THEN Raise(n, path, "NotImplementedError")
             ELSE Act(n, path, "boolean")
        ELSE IF InStr(bd, <<"<", ">", "=">>)
        THEN IF InStr(bd, <<"=">>)
             THEN IF \/ isbool(H, left) /\ isbool(H, right)
                     \/ isint(H, left) /\ isint(H, right)
                     \/ isstr(H, left) /\ isstr(H, right)
                  THEN Act(n, path, "equality") ELSE NoStep
             ELSE IF InStr(bd, <<"<", ">">>)
             THEN IF isint(H, left) /\ isint(H, right)
                  THEN IF bd \in {<<"<">>, <<">">>} THEN Act(n, path, "inequality")
                       ELSE Raise(n, path, "NotImplementedError")
                  ELSE NoStep
             ELSE Raise(n, path, "NotImplementedError")
        ELSE IF InStr(bd, <<".">>)
        THEN IF isstr(H, left) /\ isstr(H, right) THEN Act(n, path, "concat") ELSE NoStep
        ELSE IF InStr(bd, <<"T", "D">>) /\ isint(H, left) /\ isstr(H, right)
        THEN Act(n, path, "slice")
        ELSE Raise(n, path, "NotImplementedError")

\* step(node) after the loop over the children
stepLocal(H, n, path) ==
    LET ind == indicator(H, n)
    IN  IF ind \in {"T", "F", "I", "S", "L"} THEN NoStep
        ELSE IF ind \in {"v"}
        THEN LET value == lookup(H, n, H.token[n])
             IN  IF value = -1 THEN Raise(n, path, "RecursionError")
                 ELSE IF value # 0 THEN Act(n, path, "variable")
                 ELSE NoStep
        ELSE IF ind = "U"
        THEN LET child == H.children[n][1]
             IN  IF H.token[n] = <<"U", "#">> /\ indicator(H, child) = "S"
                 THEN Act(n, path, "str2int")
                 ELSE IF H.token[n] = <<"U", "$">> /\ indicator(H, child) = "I"
                 THEN Act(n, path, "int2str")
                 ELSE NoStep
        ELSE IF ind = "B" THEN stepBinary(H, n, path)
        ELSE IF ind = "?"
        THEN IF isbool(H, H.children[n][1]) THEN Act(n, path, "if") ELSE NoStep
        ELSE Raise(n, path, "NotImplementedError")

RECURSIVE stepCalls(_, _, _, _)
RECURSIVE stepChildren(_, _, _, _, _)

\* for child in node.children: if step(child): return True
stepChildren(H, n, i, stack, path) ==
    IF i > Len(H.children[n]) THEN <<>>
    ELSE stepCalls(H, H.children[n][i], stack,
                   Append(path, [node |-> n, token |-> H.token[n], idx |-> i]))
         \o stepChildren(H, n, i + 1, stack, path)

\* a step outcome as a list: empty when step returns False
Outcome(r) == IF r.kind = "none" THEN <<>> ELSE <<r>>

\* The places below node n where step would act or raise, in the order in which
\* the calls of step reach them (children first, left to right, then the node);
\* step acts at the first.  stack are the nodes whose call of step is still
\* open: a node met again below itself is a cycle of children lists, on which
\* the recursion never returns (RecursionError).
stepCalls(H, n, stack, path) ==
    IF n \in stack THEN <<Raise(n, path, "RecursionError")>>
    ELSE stepChildren(H, n, 1, stack \cup {n}, path) \o Outcome(stepLocal(H, n, path))

\* where step(node) acts or raises; NoStep when it returns False
stepSearch(H, n) ==
    IF stepCalls(H, n, {}, <<>>) = <<>> THEN NoStep ELSE Head(stepCalls(H, n, {}, <<>>))

\* the mutation of a step that is no application of a lambda
stepEffect(H, n, rule) ==
    LET left  == H.children[n][1]
        right == H.children[n][2]
    IN  CASE rule = "variable" -> replace(H, n, lookup(H, n, H.token[n]))
          [] rule = "str2int" -> replaceLeaf(H, n, <<"I">> \o body(H, left))
          [] rule = "int2str" -> replaceLeaf(H, n, <<"S">> \o body(H, left))
          [] rule = "arithmetic" ->
                LET a == asint(H, left)
                    b == asint(H, right)
                IN  replaceInt(H, n,
                        CASE H.token[n] = <<"B", "+">> -> a + b
                          [] H.token[n] = <<"B", "-">> -> a - b
                          [] H.token[n] = <<"B", "/">> -> truncdiv(a, b)
                          [] H.token[n] = <<"B", "%">> -> truncmod(a, b)
                          [] H.token[n] = <<"B", "*">> -> a * b)
          [] rule = "boolean" ->
                LET a == asbool(H, left) = "True"
                    b == asbool(H, right) = "True"
                    result == IF H.token[n] = <<"B", "&">> THEN a /\ b ELSE a \/ b
                IN  replaceLeaf(H, n, IF result THEN <<"T">> ELSE <<"F">>)
          [] rule = "equality" ->
                LET result ==
                        IF isbool(H, left) /\ isbool(H, right)
                        THEN asbool(H, left) = asbool(H, right)
                        ELSE IF isint(H, left) /\ isint(H, right)
                        THEN asint(H, left) = asint(H, right)
                        ELSE asstr(H, left) = asstr(H, right)
                IN  replaceLeaf(H, n, IF result THEN <<"T">> ELSE <<"F">>)
          [] rule = "inequality" ->
                LET a == asint(H, left)
                    b == asint(H, right)
                    result == IF body(H, n) = <<"<">> THEN a < b ELSE a > b
                IN  replaceLeaf(H, n, IF result THEN <<"T">> ELSE <<"F">>)
          [] rule = "concat" ->
                replaceLeaf(H, n, <<"S">> \o body(H, left) \o body(H, right))
          [] rule = "slice" ->
                LET x == asint(H, left)
                    y == asstr(H, right)
                    result == IF body(H, n) = <<"T">> THEN SliceTo(y, x) ELSE SliceFrom(y, x)
                IN  replaceLeaf(H, n, <<"S">> \o result)
          [] rule = "if" ->
                replace(H, n, IF asbool(H, left) = "True" THEN H.children[n][2]
                              ELSE H.children[n][3])

\* the application branch of step at node n with random.randint returning r:
\* [heap, err, new_var]
stepApply(H, n, r) ==
    LET left       == H.children[n][1]
        right      == H.children[n][2]
        expression == H.children[left][1]
        old_var    == <<"v">> \o body(H, left)
        new_var    == <<"v">> \o StrOfNat(r)
        renamed    == rename(H, expression, old_var, new_var)
    IN  IF renamed.err # "none"
        THEN [heap |-> renamed.heap, err |-> renamed.err, new_var |-> new_var]
        ELSE [heap |-> replace(supdate(renamed.heap, expression, left, n, new_var, right),
                               n, expression),
              err |-> "none", new_var |-> new_var]

----------------------------------------------------------------------------
(* l3ng.py: the recursive evaluator.  A parsed term is a Python str (a token) *)
(* or a tuple (token, argument, ...): here a record of the token and the     *)
(* arguments, a str having none.  c2b94, truncdiv, truncmod, decode and       *)
(* encode of l3ng.py have the text of those of again.py.                       *)

Leaf(token) == [tok |-> token, args |-> <<>>]
Tuple(token, args) == [tok |-> token, args |-> args]

UnaryBodies == { <<"-">>, <<"!">>, <<"#">>, <<"$">> }
BinaryBodies ==
    { <<"+">>, <<"-">>, <<"*">>, <<"/">>, <<"%">>, <<"<">>, <<">">>, <<"=">>,
      <<"|">>, <<"&">>, <<".">>, <<"T">>, <<"D">>, <<"$">> }

RECURSIVE l3parse(_)
RECURSIVE l3parseArgs(_, _)

\* the calls value, remainder = parse(remainder), k times in a row
l3parseArgs(tokens, k) ==
    IF k = 0 THEN [terms |-> <<>>, rest |-> tokens, err |-> "none"]
    ELSE LET first == l3parse(tokens)
         IN  IF first.err # "none" THEN [terms |-> <<>>, rest |-> tokens, err |-> first.err]
             ELSE LET more == l3parseArgs(first.rest, k - 1)
                  IN  [terms |-> <<first.term>> \o more.terms, rest |-> more.rest,
                       err |-> more.err]

\* l3ng.parse: [term, rest, err]
l3parse(tokens) ==
    LET fail(e) == [term |-> Leaf(<<>>), rest |-> tokens, err |-> e]
    IN  IF tokens = <<>> THEN fail("AssertionError")
        ELSE LET token == Head(tokens)
                 ind == token[1]
                 bd == Tail(token)
                 leaf == [term |-> Leaf(token), rest |-> Tail(tokens), err |-> "none"]
                 node(k) == LET sub == l3parseArgs(Tail(tokens), k)
                            IN  IF sub.err # "none" THEN fail(sub.err)
                                ELSE [term |-> Tuple(token, sub.terms), rest |-> sub.rest,
                                      err |-> "none"]
             IN  IF ind \in {"T", "F"} THEN (IF bd = <<>> THEN leaf ELSE fail("AssertionError"))
                 ELSE IF ind \in {"I", "S"} THEN (IF bd # <<>> THEN leaf ELSE fail("AssertionError"))
                 ELSE IF ind = "U"
                 THEN (IF bd \in UnaryBodies THEN node(1) ELSE fail("AssertionError"))
                 ELSE IF ind = "B"
                 THEN (IF bd \in BinaryBodies THEN node(2) ELSE fail("AssertionError"))
                 ELSE IF ind = "?" THEN (IF bd = <<>> THEN node(3) ELSE fail("AssertionError"))
                 ELSE IF ind = "L" THEN (IF bd # <<>> THEN node(1) ELSE fail("AssertionError"))
                 ELSE IF ind = "v" THEN (IF bd # <<>> THEN leaf ELSE fail("AssertionError"))
                 ELSE fail("ValueError")

RECURSIVE l3replace(_, _, _)
\* l3ng.replace: Recursively replace variable with replacement in expression.
\* The token of a tuple goes through replace as well; it begins with U, B, ? or
\* L and so is never the variable.
l3replace(expression, variable, replacement) ==
    IF expression.args = <<>>
    THEN IF expression.tok = variable THEN replacement ELSE expression
    ELSE IF Len(expression.args) = 1 /\ expression.tok = <<"L">> \o Tail(variable)
    THEN expression
    ELSE Tuple(expression.tok,
               [i \in DOMAIN expression.args |->
                    l3replace(expression.args[i], variable, replacement)])

\* Python values of l3ng.evaluate: bool, int, str, tuple (a parsed term), and
\* the exception when it raises
PyBool(b) == [t |-> "bool", v |-> b]
PyInt(n) == [t |-> "int", v |-> n]
PyStr(chars) == [t |-> "str", v |-> chars]
PyTuple(term) == [t |-> "tuple", v |-> term]
PyRaise(e) == [t |-> "raise", v |-> e]

\* isinstance(x, int): bool is a subclass of int
IsInt(x) == x.t \in {"int", "bool"}
\* the number an int or a bool is in arithmetic
Num(x) == IF x.t = "bool" THEN (IF x.v THEN 1 ELSE 0) ELSE x.v

\* Python: a == b
PyEq(a, b) ==
    IF IsInt(a) /\ IsInt(b) THEN Num(a) = Num(b)
    ELSE IF a.t = b.t THEN a.v = b.v
    ELSE FALSE

\* l3ng.evaluate, indicator "U", on the value of the operand
l3unary(bd, x) ==
    IF bd = <<"-">> THEN (IF IsInt(x) THEN PyInt(- Num(x)) ELSE PyRaise("AssertionError"))
    ELSE IF bd = <<"!">>
    THEN (IF x.t = "bool" THEN PyBool(~ x.v) ELSE PyRaise("AssertionError"))
    ELSE IF bd = <<"#">>
    THEN (IF x.t = "str" THEN PyInt(c2b94(encode(x.v))) ELSE PyRaise("AssertionError"))
    ELSE IF bd = <<"$">>
    THEN IF ~ IsInt(x) THEN PyRaise("AssertionError")
         \* l3ng.b942c: while value: divmod(value, 94) never reaches 0 from below
         ELSE IF Num(x) < 0 THEN PyRaise("NoReturn")
         ELSE PyStr(decode(b942cLoop(Num(x), <<>>)))
    ELSE PyRaise("ValueError")

\* l3ng.evaluate, indicator "B" other than B$, on the values of both operands
l3binary(bd, a, b) ==
    LET ints == IsInt(a) /\ IsInt(b)
        x == Num(a)
        y == Num(b)
    IN  IF bd \in {<<"+">>, <<"-">>, <<"*">>, <<"/">>, <<"%">>, <<"<">>, <<">">>}
        THEN IF ~ ints THEN PyRaise("AssertionError")
             ELSE IF bd = <<"+">> THEN PyInt(x + y)
             ELSE IF bd = <<"-">> THEN PyInt(x - y)
             ELSE IF bd = <<"*">> THEN PyInt(x * y)
             ELSE IF bd = <<"<">> THEN PyBool(x < y)
             ELSE IF bd = <<">">> THEN PyBool(x > y)
             ELSE IF y = 0 THEN PyRaise("ZeroDivisionError")
             ELSE IF bd = <<"/">> THEN PyInt(truncdiv(x, y))
             ELSE PyInt(truncmod(x, y))
        ELSE IF bd = <<"=">> THEN PyBool(PyEq(a, b))
        ELSE IF bd \in {<<"|">>, <<"&">>}
        THEN IF ~ (a.t = "bool" /\ b.t = "bool") THEN PyRaise("AssertionError")
             ELSE IF bd = <<"|">> THEN PyBool(a.v \/ b.v)
             ELSE PyBool(a.v /\ b.v)
        ELSE IF bd = <<".">>
        THEN (IF a.t = "str" /\ b.t = "str" THEN PyStr(a.v \o b.v)
              ELSE PyRaise("AssertionError"))
        ELSE IF bd \in {<<"T">>, <<"D">>}
        THEN IF ~ (IsInt(a) /\ b.t = "str") THEN PyRaise("AssertionError")
             ELSE IF bd = <<"T">> THEN PyStr(SliceTo(b.v, x))
             ELSE PyStr(SliceFrom(b.v, x))
        ELSE PyRaise("ValueError")

\* the depth of nested calls of evaluate that Python's recursion limit allows
L3MaxDepth == 12

\* the outcome of a call of evaluate: its value (or exception) and the terms on
\* which evaluate was called during it, in call order
Outcome3(x, calls) == [t |-> x.t, v |-> x.v, calls |-> calls]

RECURSIVE l3evaluate(_, _)
\* l3ng.evaluate(parsed), called at nesting depth d
l3evaluate(parsed, d) ==
    LET me == <<parsed>>
        ind == parsed.tok[1]
        bd == Tail(parsed.tok)
        args == parsed.args
    IN  IF d > L3MaxDepth THEN Outcome3(PyRaise("RecursionError"), <<>>)
        ELSE IF args = <<>>
        THEN IF ind \in {"T", "F"} THEN Outcome3(PyBool(ind = "T"), me)
             ELSE IF ind = "I" THEN Outcome3(PyInt(c2b94(bd)), me)
             ELSE IF ind = "S" THEN Outcome3(PyStr(decode(bd)), me)
             ELSE IF ind = "v" THEN Outcome3(PyStr(parsed.tok), me)   \* return parsed
             ELSE Outcome3(PyRaise("ValueError"), me)
        ELSE IF ind = "U"
        THEN LET value == l3evaluate(args[1], d + 1)
             IN  IF value.t = "raise" THEN Outcome3(value, me \o value.calls)
                 ELSE Outcome3(l3unary(bd, value), me \o value.calls)
        ELSE IF ind = "B" /\ bd # <<"$">>
        THEN LET value1 == l3evaluate(args[1], d + 1)
             IN  IF value1.t = "raise" THEN Outcome3(value1, me \o value1.calls)
                 ELSE LET value2 == l3evaluate(args[2], d + 1)
                          calls == me \o value1.calls \o value2.calls
                      IN  IF value2.t = "raise" THEN Outcome3(value2, calls)
                          ELSE Outcome3(l3binary(bd, value1, value2), calls)
        ELSE IF ind = "B"
        THEN LET value1 == l3evaluate(args[1], d + 1)
                 \* Delay evaluation of arguments for lambda application
                 value2 == args[2]
             IN  IF value1.t = "raise" THEN Outcome3(value1, me \o value1.calls)
                 ELSE IF ~ (value1.t = "tuple" /\ Len(value1.v.args) = 1
                            /\ value1.v.tok[1] = "L")
                 THEN Outcome3(PyRaise("AssertionError"), me \o value1.calls)
                 ELSE LET variable == <<"v">> \o Tail(value1.v.tok)
                          result == l3evaluate(
                                        l3replace(value1.v.args[1], variable, value2),
                                        d + 1)
                      IN  Outcome3(result, me \o value1.calls \o result.calls)
        ELSE IF ind = "?"
        THEN LET condition == l3evaluate(args[1], d + 1)
             IN  IF condition.t = "raise" THEN Outcome3(condition, me \o condition.calls)
                 ELSE IF condition.t # "bool"
                 THEN Outcome3(PyRaise("AssertionError"), me \o condition.calls)
                 ELSE LET branch == l3evaluate(IF condition.v THEN args[2] ELSE args[3],
                                               d + 1)
                      IN  Outcome3(branch, me \o condition.calls \o branch.calls)
        ELSE IF ind = "L" THEN Outcome3(PyTuple(parsed), me)
        ELSE Outcome3(PyRaise("ValueError"), me)

\* l3ng.evaluate(x) on a Python value x that an earlier call returned: a str
\* is read as a token (parsed[0] of '' is an IndexError), a tuple as a term, and
\* for a bool or an int the last line raises ValueError('Unknown parsed type')
l3evaluateValue(x) ==
    IF x.t = "str"
    THEN IF x.v = <<>> THEN Outcome3(PyRaise("IndexError"), <<>>)
         ELSE l3evaluate(Leaf(x.v), 1)
    ELSE IF x.t = "tuple" THEN l3evaluate(x.v, 1)
    ELSE Outcome3(PyRaise("ValueError"), <<>>)

\* l3ng.ept on a tokenized program: parse, assert remainder == [], evaluate
ept(tokens) ==
    LET p == l3parse(tokens)
    IN  IF p.err # "none" THEN Outcome3(PyRaise(p.err), <<>>)
        ELSE IF p.rest # <<>> THEN Outcome3(PyRaise("AssertionError"), <<>>)
        ELSE l3evaluate(p.term, 1)

----------------------------------------------------------------------------
(* l4ng.py: parse and unparse.  A parsed term is a str or a tuple, as in     *)
(* l3ng.py; the tuple (token, argument, ...) is the list of its items where  *)
(* unparse slices it.                                                        *)

RECURSIVE l4parse(_)
RECURSIVE l4parseArgs(_, _)

\* the calls value, remainder = parse(remainder), k times in a row
l4parseArgs(tokens, k) ==
    IF k = 0 THEN [terms |-> <<>>, rest |-> tokens, err |-> "none"]
    ELSE LET first == l4parse(tokens)
         IN  IF first.err # "none" THEN [terms |-> <<>>, rest |-> tokens, err |-> first.err]
             ELSE LET more == l4parseArgs(first.rest, k - 1)
                  IN  [terms |-> <<first.term>> \o more.terms, rest |-> more.rest,
                       err |-> more.err]

\* l4ng.parse: [term, rest, err]
l4parse(tokens) ==
    LET fail(e) == [term |-> Leaf(<<>>), rest |-> tokens, err |-> e]
    IN  IF tokens = <<>> THEN fail("AssertionError")
        ELSE LET token == Head(tokens)
                 ind == token[1]
                 bd == Tail(token)
                 leaf == [term |-> Leaf(token), rest |-> Tail(tokens), err |-> "none"]
                 node(k) == LET sub == l4parseArgs(Tail(tokens), k)
                            IN  IF sub.err # "none" THEN fail(sub.err)
                                ELSE [term |-> Tuple(token, sub.terms), rest |-> sub.rest,
                                      err |-> "none"]
             IN  IF ind = "I" THEN (IF bd # <<>> THEN leaf ELSE fail("AssertionError"))
                 ELSE IF ind = "B" THEN (IF bd = <<"$">> THEN node(2) ELSE fail("AssertionError"))
                 ELSE IF ind = "L" THEN (IF bd # <<>> THEN node(1) ELSE fail("AssertionError"))
                 ELSE IF ind = "v" THEN (IF bd # <<>> THEN leaf ELSE fail("AssertionError"))
                 ELSE fail("ValueError")

RECURSIVE unparse(_, _)
RECURSIVE unparseTuple(_, _)

\* unparse of the first item only, the others dropped
unparseHead(items, remainder) == unparse(items[1], remainder)

\* unparse(parsed, remainder) for a tuple: its items, the token first
unparseTuple(items, remainder) ==
    IF Len(items) = 1 THEN unparse(items[1], remainder)
    ELSE IF unparseTuple(Tail(items), remainder).err # "none"
    THEN unparseTuple(Tail(items), remainder)
    ELSE unparse(items[1], unparseTuple(Tail(items), remainder).tokens)

\* l4ng.unparse: [tokens, err]
unparse(parsed, remainder) ==
    IF parsed.args = <<>>
    THEN IF parsed.tok = <<>> THEN [tokens |-> <<>>, err |-> "AssertionError"]
         ELSE [tokens |-> <<parsed.tok>> \o remainder, err |-> "none"]
    ELSE unparseTuple(<<Leaf(parsed.tok)>> \o parsed.args, remainder)

----------------------------------------------------------------------------
(* alang.py: the rule engine.  A Node is its token and its children (None and *)
(* [] alike are no children).  Where the code rewrites a node in place the    *)
(* model builds a new one: alang has no parent pointers, and no node or       *)
(* children list stays reachable twice after a replace.                       *)

RECURSIVE alparse(_)
RECURSIVE alparseArgs(_, _)

\* the calls parse(tokens) for the children, k times in a row
alparseArgs(tokens, k) ==
    IF k = 0 THEN [terms |-> <<>>, rest |-> tokens, err |-> "none"]
    ELSE LET first == alparse(tokens)
         IN  IF first.err # "none" THEN [terms |-> <<>>, rest |-> tokens, err |-> first.err]
             ELSE LET more == alparseArgs(first.rest, k - 1)
                  IN  [terms |-> <<first.term>> \o more.terms, rest |-> more.rest,
                       err |-> more.err]

\* alang.parse on a list of tokens: [term, rest, err]
alparse(tokens) ==
    LET fail(e) == [term |-> Leaf(<<>>), rest |-> tokens, err |-> e]
    IN  IF tokens = <<>> THEN fail("IndexError")
        ELSE LET token == Head(tokens)
                 ind == token[1]
                 node(k) == LET sub == alparseArgs(Tail(tokens), k)
                            IN  IF sub.err # "none" THEN fail(sub.err)
                                ELSE [term |-> Tuple(token, sub.terms), rest |-> sub.rest,
                                      err |-> "none"]
             IN  IF ind \in {"T", "F", "v", "I", "S", "x", "y", "z"}
                 THEN [term |-> Leaf(token), rest |-> Tail(tokens), err |-> "none"]
                 ELSE IF ind \in {"L", "U"} THEN node(1)
                 ELSE IF ind = "B" THEN node(2)
                 ELSE IF ind = "?" THEN node(3)
                 ELSE fail("ValueError")

\* PATTERNS_TEXT: the lines that are no comment, split at '->' and at blanks
PATTERNS_TEXT ==
    <<
       \* U! T -> F
       << << <<"U", "!">>, <<"T">> >>,
          << <<"F">> >> >>,
       \* U! F -> T
       << << <<"U", "!">>, <<"F">> >>,
          << <<"T">> >> >>,
       \* U- I! -> I!
       << << <<"U", "-">>, <<"I", "!">> >>,
          << <<"I", "!">> >> >>,
       \* U- U- x -> x
       << << <<"U", "-">>, <<"U", "-">>, <<"x">> >>,
          << <<"x">> >> >>,
       \* U! U! x -> x
       << << <<"U", "!">>, <<"U", "!">>, <<"x">> >>,
          << <<"x">> >> >>,
       \* U$ U# x -> x
       << << <<"U", "$">>, <<"U", "#">>, <<"x">> >>,
          << <<"x">> >> >>,
       \* U# U$ x -> x
       << << <<"U", "#">>, <<"U", "$">>, <<"x">> >>,
          << <<"x">> >> >>,
       \* B& T T -> T
       << << <<"B", "&">>, <<"T">>, <<"T">> >>,
          << <<"T">> >> >>,
       \* B& T x -> x
       << << <<"B", "&">>, <<"T">>, <<"x">> >>,
          << <<"x">> >> >>,
       \* B& x T -> x
       << << <<"B", "&">>, <<"x">>, <<"T">> >>,
          << <<"x">> >> >>,
       \* B& F x -> F
       << << <<"B", "&">>, <<"F">>, <<"x">> >>,
          << <<"F">> >> >>,
       \* B& x F -> F
       << << <<"B", "&">>, <<"x">>, <<"F">> >>,
          << <<"F">> >> >>,
       \* B& U! x U! y -> U! B| x y
       << << <<"B", "&">>, <<"U", "!">>, <<"x">>, <<"U", "!">>, <<"y">> >>,
          << <<"U", "!">>, <<"B", "|">>, <<"x">>, <<"y">> >> >>,
       \* B| T x -> T
       << << <<"B", "|">>, <<"T">>, <<"x">> >>,
          << <<"T">> >> >>,
       \* B| x T -> T
       << << <<"B", "|">>, <<"x">>, <<"T">> >>,
          << <<"T">> >> >>,
       \* B| F F -> F
       << << <<"B", "|">>, <<"F">>, <<"F">> >>,
          << <<"F">> >> >>,
       \* B| F x -> x
       << << <<"B", "|">>, <<"F">>, <<"x">> >>,
          << <<"x">> >> >>,
       \* B| x F -> x
       << << <<"B", "|">>, <<"x">>, <<"F">> >>,
          << <<"x">> >> >>,
       \* B| U! x U! y -> U! B& x y
       << << <<"B", "|">>, <<"U", "!">>, <<"x">>, <<"U", "!">>, <<"y">> >>,
          << <<"U", "!">>, <<"B", "&">>, <<"x">>, <<"y">> >> >>,
       \* B+ x I! -> x
       << << <<"B", "+">>, <<"x">>, <<"I", "!">> >>,
          << <<"x">> >> >>,
       \* B+ I! x -> x
       << << <<"B", "+">>, <<"I", "!">>, <<"x">> >>,
          << <<"x">> >> >>,
       \* B- x I! -> x
       << << <<"B", "-">>, <<"x">>, <<"I", "!">> >>,
          << <<"x">> >> >>,
       \* B- I! x -> U- x
       << << <<"B", "-">>, <<"I", "!">>, <<"x">> >>,
          << <<"U", "-">>, <<"x">> >> >>,
       \* B+ x U- y -> B- x y
       << << <<"B", "+">>, <<"x">>, <<"U", "-">>, <<"y">> >>,
          << <<"B", "-">>, <<"x">>, <<"y">> >> >>,
       \* B- x U- y -> B+ x y
       << << <<"B", "-">>, <<"x">>, <<"U", "-">>, <<"y">> >>,
          << <<"B", "+">>, <<"x">>, <<"y">> >> >>,
       \* B* I! x -> I!
       << << <<"B", "*">>, <<"I", "!">>, <<"x">> >>,
          << <<"I", "!">> >> >>,
       \* B* x I! -> I!
       << << <<"B", "*">>, <<"x">>, <<"I", "!">> >>,
          << <<"I", "!">> >> >>,
       \* B* U- x y -> U- B* x y
       << << <<"B", "*">>, <<"U", "-">>, <<"x">>, <<"y">> >>,
          << <<"U", "-">>, <<"B", "*">>, <<"x">>, <<"y">> >> >>,
       \* B* x U- y -> U- B* x y
       << << <<"B", "*">>, <<"x">>, <<"U", "-">>, <<"y">> >>,
          << <<"U", "-">>, <<"B", "*">>, <<"x">>, <<"y">> >> >>,
       \* B* U- x U- y -> B* x y
       << << <<"B", "*">>, <<"U", "-">>, <<"x">>, <<"U", "-">>, <<"y">> >>,
          << <<"B", "*">>, <<"x">>, <<"y">> >> >>,
       \* B/ I! x -> I!
       << << <<"B", "/">>, <<"I", "!">>, <<"x">> >>,
          << <<"I", "!">> >> >>,
       \* B/ U- x y -> U- B/ x y
       << << <<"B", "/">>, <<"U", "-">>, <<"x">>, <<"y">> >>,
          << <<"U", "-">>, <<"B", "/">>, <<"x">>, <<"y">> >> >>,
       \* B/ x U- y -> U- B/ x y
       << << <<"B", "/">>, <<"x">>, <<"U", "-">>, <<"y">> >>,
          << <<"U", "-">>, <<"B", "/">>, <<"x">>, <<"y">> >> >>,
       \* B< U- x U- y -> B> x y
       << << <<"B", "<">>, <<"U", "-">>, <<"x">>, <<"U", "-">>, <<"y">> >>,
          << <<"B", ">">>, <<"x">>, <<"y">> >> >>,
       \* B> U- x U- y -> B< x y
       << << <<"B", ">">>, <<"U", "-">>, <<"x">>, <<"U", "-">>, <<"y">> >>,
          << <<"B", "<">>, <<"x">>, <<"y">> >> >>,
       \* B= U- x U- y -> B= x y
       << << <<"B", "=">>, <<"U", "-">>, <<"x">>, <<"U", "-">>, <<"y">> >>,
          << <<"B", "=">>, <<"x">>, <<"y">> >> >>,
       \* ? T x y -> x
       << << <<"?">>, <<"T">>, <<"x">>, <<"y">> >>,
          << <<"x">> >> >>,
       \* ? F x y -> y
       << << <<"?">>, <<"F">>, <<"x">>, <<"y">> >>,
          << <<"y">> >> >>
    >>

\* a rule: its pattern, its replace and its class
Rule(left, right, class) ==
    [pattern |-> alparse(left).term, replace |-> alparse(right).term, class |-> class]

\* ICFP.__post_init__: the rules in the order of add_rule
ICFP_rules ==
    [i \in DOMAIN PATTERNS_TEXT |-> Rule(PATTERNS_TEXT[i][1], PATTERNS_TEXT[i][2], "Rule")]
    \o << Rule(<< <<"U", "#">>, <<"S">> >>, << <<"x">> >>, "StrToIntRule"),
          Rule(<< <<"U", "$">>, <<"I">> >>, << <<"x">> >>, "IntToStrRule"),
          Rule(<< <<"B", "+">>, <<"I">>, <<"I">> >>, << <<"x">> >>, "AdditionRule"),
          Rule(<< <<"B", "-">>, <<"I">>, <<"I">> >>, << <<"x">> >>, "SubtractionRule"),
          Rule(<< <<"B", "*">>, <<"I">>, <<"I">> >>, << <<"x">> >>, "MultiplicationRule"),
          Rule(<< <<"B", "/">>, <<"I">>, <<"I">> >>, << <<"x">> >>, "DivisionRule"),
          Rule(<< <<"B", "%">>, <<"I">>, <<"I">> >>, << <<"x">> >>, "ModulusRule"),
          Rule(<< <<"B", "<">>, <<"I">>, <<"I">> >>, << <<"x">> >>, "LessThanRule"),
          Rule(<< <<"B", ">">>, <<"I">>, <<"I">> >>, << <<"x">> >>, "GreaterThanRule"),
          Rule(<< <<"B", "=">>, <<"I">>, <<"I">> >>, << <<"x">> >>, "EqualsRule"),
          Rule(<< <<"B", "=">>, <<"x">>, <<"y">> >>, << <<"T">> >>, "EquivalenceRule"),
          Rule(<< <<"B", ".">>, <<"S">>, <<"S">> >>, << <<"x">> >>, "ConcatenationRule"),
          Rule(<< <<"B", "$">>, <<"L">>, <<"x">>, <<"y">> >>, << <<"x">> >>,
               "ApplicationRule"),
          Rule(<< <<"v">> >>, << <<"x">> >>, "VariableRule") >>

\* self.rules[node.token] + self.rules[node.indicator]: add_rule files a rule
\* under the token of its pattern
RulesFor(node) ==
    LET filed(rules) ==
            SelectSeq(rules, LAMBDA r : r.pattern.tok = node.tok)
            \o SelectSeq(rules, LAMBDA r : r.pattern.tok = <<node.tok[1]>>)
    IN  filed(ICFP_rules)

\* pattern.token in 'xyz'
Placeholder(pattern) == InStr(pattern.tok, <<"x", "y", "z">>)

NoMatch == [ok |-> FALSE, m |-> <<>>]

RECURSIVE match(_, _)
RECURSIVE matchChildren(_, _, _, _)

\* for sc, pc in zip(self.children or [], pattern.children or [])
matchChildren(schildren, pchildren, i, matches) ==
    IF i > Min(Len(schildren), Len(pchildren)) THEN [ok |-> TRUE, m |-> matches]
    ELSE LET one == match(schildren[i], pchildren[i])
         IN  IF ~ one.ok THEN NoMatch
             ELSE matchChildren(schildren, pchildren, i + 1, one.m @@ matches)   \* matches.update(match)

\* Node.match: the dict of placeholder matches (ok), or None
match(self, pattern) ==
    IF Placeholder(pattern) THEN [ok |-> TRUE, m |-> (pattern.tok :> self)]
    ELSE IF Len(pattern.tok) = 1 /\ pattern.tok[1] # self.tok[1] THEN NoMatch
    ELSE IF Len(pattern.tok) # 1 /\ pattern.tok # self.tok THEN NoMatch
    ELSE matchChildren(self.args, pattern.args, 1, [k \in {} |-> k])

RECURSIVE alreplace(_, _)
\* Node.replace(pattern, matches): the node built from the pattern.  No replace
\* of the rules has a placeholder twice, so matches.pop always finds its key.
alreplace(pattern, matches) ==
    IF Placeholder(pattern) THEN matches[pattern.tok]
    ELSE IF pattern.args = <<>> THEN Leaf(pattern.tok)
    ELSE Tuple(pattern.tok,
               [i \in DOMAIN pattern.args |-> alreplace(pattern.args[i], matches)])

RECURSIVE alrename(_, _, _)
\* Node.rename(old, new) of alang.py
alrename(self, old, new) ==
    LET kids == IF self.args = <<>> THEN <<>>
                ELSE [i \in DOMAIN self.args |-> alrename(self.args[i], old, new)]
    IN  IF self.tok = old THEN Tuple(new, kids)
        ELSE IF self.tok[1] = "L" /\ Tail(self.tok) = Tail(old) THEN self
        ELSE Tuple(self.tok, kids)

\* the name of the variable ICFP.new_var makes when len(self.variables) = n:
\* f'v{n:09d}'
new_var(n) ==
    <<"v">> \o [i \in 1 .. (9 - Len(StrOfNat(n))) |-> "0"] \o StrOfNat(n)

\* self.variables, a list here: the node stored under new_var(k - 1) is the k-th
VariableKeys(variables) == { new_var(k - 1) : k \in DOMAIN variables }
VariableAt(variables, token) ==
    variables[CHOOSE k \in DOMAIN variables : new_var(k - 1) = token]

\* rule.apply(node, matches): the node it leaves and self.variables after it,
\* or the exception
apply(rule, node, matches, variables) ==
    LET left == node.args[1]
        right == node.args[2]
        done(t) == [kind |-> "act", term |-> t, variables |-> variables]
        raise(e) == [kind |-> "raise", err |-> e]
        \* matches['x'] = Node(f"I{b942c(c)}"); b942c asserts value >= 0
        int(c) == IF c < 0 THEN raise("AssertionError") ELSE done(Leaf(<<"I">> \o b942c(c)))
        bool(c) == done(Leaf(IF c THEN <<"T">> ELSE <<"F">>))
        class == rule.class
        \* a, b = c2b94(left.body), c2b94(right.body)
        arithmetic(a, b) ==
            IF class \in {"LessThanRule", "GreaterThanRule", "EqualsRule"}
            THEN bool(IF class = "LessThanRule" THEN a < b
                      ELSE IF class = "GreaterThanRule" THEN a > b
                      ELSE a = b)
            ELSE IF class \in {"DivisionRule", "ModulusRule"} /\ b = 0
            THEN raise("ZeroDivisionError")
            ELSE int(IF class = "AdditionRule" THEN a + b
                     ELSE IF class = "SubtractionRule" THEN a - b
                     ELSE IF class = "MultiplicationRule" THEN a * b
                     ELSE IF class = "DivisionRule" THEN truncdiv(a, b)
                     ELSE truncmod(a, b))
    IN  IF class \in {"Rule", "EquivalenceRule"} THEN done(alreplace(rule.replace, matches))
        ELSE IF class = "StrToIntRule" THEN done(Leaf(<<"I">> \o Tail(left.tok)))
        ELSE IF class = "IntToStrRule" THEN done(Leaf(<<"S">> \o Tail(left.tok)))
        ELSE IF class = "ConcatenationRule"
        THEN done(Leaf(<<"S">> \o Tail(left.tok) \o Tail(right.tok)))
        ELSE IF class = "ApplicationRule"
        THEN [kind |-> "act",
              term |-> alrename(matches[<<"x">>], <<"v">> \o Tail(left.tok),
                                new_var(Len(variables))),
              variables |-> Append(variables, matches[<<"y">>])]
        ELSE IF class = "VariableRule"
        THEN \* self.icfp.variables[node.token].copy()
             IF node.tok \in VariableKeys(variables)
             THEN done(VariableAt(variables, node.tok))
             ELSE raise("KeyError")
        ELSE arithmetic(c2b94(Tail(left.tok)), c2b94(Tail(right.tok)))

RECURSIVE alstep(_, _)
RECURSIVE alstepChildren(_, _, _)

\* the first affordance below the children of node, in the order of walk
alstepChildren(node, variables, i) ==
    IF i > Len(node.args) THEN [kind |-> "none"]
    ELSE LET below(r) ==
                 IF r.kind = "none" THEN alstepChildren(node, variables, i + 1)
                 ELSE IF r.kind = "raise" THEN r
                 ELSE [kind |-> "act", term |-> [node EXCEPT !.args[i] = r.term],
                       variables |-> r.variables]
         IN  below(alstep(node.args[i], variables))

\* ICFP.step with node as root: get_affordances walks the tree, node before its
\* children, and tries the rules of each node in order with node.match(rule.pattern);
\* step applies affordances[0].  kind "none" when there is no affordance.
alstep(node, variables) ==
    LET affordance(rule) == apply(rule, node, match(node, rule.pattern).m, variables)
        first(rs, hits) ==
            IF hits # {}
            THEN affordance(rs[CHOOSE h \in hits : \A g \in hits : h <= g])
            ELSE alstepChildren(node, variables, 1)
        among(rs) == first(rs, { i \in DOMAIN rs : match(node, rs[i].pattern).ok })
    IN  among(RulesFor(node))

----------------------------------------------------------------------------
(* efficiency/trans.py: parse.  A Node is its type, value and children; None *)
(* is the node of type "None".                                                *)

TransNode(type, value, children) == [type |-> type, value |-> value, children |-> children]
None == TransNode("None", <<>>, <<>>)

RECURSIVE parse_expression(_, _)
RECURSIVE parse_expressions(_, _, _)

\* k calls node, next_index = parse_expression(next_index) in a row
parse_expressions(tokens, index, k) ==
    IF k = 0 THEN [nodes |-> <<>>, index |-> index, err |-> "none"]
    ELSE LET first == parse_expression(tokens, index)
         IN  IF first.err # "none" THEN [nodes |-> <<>>, index |-> index, err |-> first.err]
             ELSE LET more == parse_expressions(tokens, first.index, k - 1)
                  IN  [nodes |-> <<first.node>> \o more.nodes, index |-> more.index,
                       err |-> more.err]

\* parse_expression(index) inside trans.parse(tokens); index counts from 0
parse_expression(tokens, index) ==
    LET token == tokens[index + 1]
        leaf(type, value) ==
            [node |-> TransNode(type, value, <<>>), index |-> index + 1, err |-> "none"]
        \* the children are parsed first, then the Node is built from value
        inner(type, value, k, indexError) ==
            LET sub == parse_expressions(tokens, index + 1, k)
            IN  IF sub.err # "none" THEN [node |-> None, index |-> index, err |-> sub.err]
                ELSE IF indexError THEN [node |-> None, index |-> index, err |-> "IndexError"]
                ELSE [node |-> TransNode(type, value, sub.nodes), index |-> sub.index,
                      err |-> "none"]
        \* token[1]
        second == IF Len(token) > 1 THEN <<token[2]>> ELSE <<>>
    IN  IF index >= Len(tokens) THEN [node |-> None, index |-> index, err |-> "none"]
        ELSE IF token[1] \in {"T", "F"} THEN leaf("bool", token)
        ELSE IF token[1] = "I" THEN leaf("int", Tail(token))
        ELSE IF token[1] = "S" THEN leaf("string", decode(Tail(token)))
        ELSE IF token[1] = "U" THEN inner("unary", second, 1, Len(token) < 2)
        ELSE IF token[1] = "B" THEN inner("binary", second, 2, Len(token) < 2)
        ELSE IF token[1] = "?" THEN inner("if", "None", 3, FALSE)
        ELSE IF token[1] = "L" THEN inner("lambda", Tail(token), 1, FALSE)
        ELSE IF token[1] = "v" THEN leaf("var", Tail(token))
        ELSE leaf("unknown", token)

\* trans.parse: root, _ = parse_expression(0); return root
trparse(tokens) ==
    LET r == parse_expression(tokens, 0)
    IN  [term |-> r.node, err |-> r.err]

----------------------------------------------------------------------------
(* again.py: evaluate, run on the programs below *)

\* the token lists given to parse
Programs ==
    <<
    \* 1. the documented example of non-strict application: B$ B$ L# L$ v# B. SB%,,/ S}Q/2,$_ IK
    <<
        <<"B", "$">>, <<"B", "$">>, <<"L", "#">>, <<"L", "$">>, <<"v", "#">>, <<"B", ".">>,
        <<"S", "B", "%", ",", ",", "/">>, <<"S", "}", "Q", "/", "2", ",", "$", "_">>,
        <<"I", "K">>
    >>,
    \* 2. the documented evaluation example: B$ L# B$ L" B+ v" v" B* I$ I# v8
    <<
        <<"B", "$">>, <<"L", "#">>, <<"B", "$">>, <<"L", "\"">>, <<"B", "+">>,
        <<"v", "\"">>, <<"v", "\"">>, <<"B", "*">>, <<"I", "$">>, <<"I", "#">>, <<"v", "8">>
    >>,
    \* 3. self-application (L x. x x)(L x. x x): B$ L" B$ v" v" L" B$ v" v"
    <<
        <<"B", "$">>, <<"L", "\"">>, <<"B", "$">>, <<"v", "\"">>, <<"v", "\"">>,
        <<"L", "\"">>, <<"B", "$">>, <<"v", "\"">>, <<"v", "\"">>
    >>,
    \* 4. (L x. L y. x) y 0: the argument y is free: B$ B$ L" L# v" v# I!
    <<
        <<"B", "$">>, <<"B", "$">>, <<"L", "\"">>, <<"L", "#">>, <<"v", "\"">>,
        <<"v", "#">>, <<"I", "!">>
    >>,
    \* 5. a conditional whose branch not taken holds a redex: ? F B+ I" I" I#
    <<
        <<"?">>, <<"F">>, <<"B", "+">>, <<"I", "\"">>, <<"I", "\"">>, <<"I", "#">>
    >>,
    \* 6. a conditional whose branch not taken diverges: ? F B$ L" B$ v" v" L" B$ v" v" I"
    <<
        <<"?">>, <<"F">>, <<"B", "$">>, <<"L", "\"">>, <<"B", "$">>, <<"v", "\"">>,
        <<"v", "\"">>, <<"L", "\"">>, <<"B", "$">>, <<"v", "\"">>, <<"v", "\"">>,
        <<"I", "\"">>
    >>,
    \* 7. the documented term of 109 beta reductions: B$ B$ L" B$ L# B$ v" B$ v# v# L# B$ v" B$ v# v# L" L# ? B= v# I! I" B$ L$ B+ B$ v" v$ B$ v" v$ B- v# I" I%
    <<
        <<"B", "$">>, <<"B", "$">>, <<"L", "\"">>, <<"B", "$">>, <<"L", "#">>,
        <<"B", "$">>, <<"v", "\"">>, <<"B", "$">>, <<"v", "#">>, <<"v", "#">>,
        <<"L", "#">>, <<"B", "$">>, <<"v", "\"">>, <<"B", "$">>, <<"v", "#">>,
        <<"v", "#">>, <<"L", "\"">>, <<"L", "#">>, <<"?">>, <<"B", "=">>, <<"v", "#">>,
        <<"I", "!">>, <<"I", "\"">>, <<"B", "$">>, <<"L", "$">>, <<"B", "+">>,
        <<"B", "$">>, <<"v", "\"">>, <<"v", "$">>, <<"B", "$">>, <<"v", "\"">>,
        <<"v", "$">>, <<"B", "-">>, <<"v", "#">>, <<"I", "\"">>, <<"I", "%">>
    >>,
    \* 8. an argument used twice that is applied after it was substituted: B$ L" B$ L# B+ v# v# B$ v" v$ L$ B. v$ v$
    <<
        <<"B", "$">>, <<"L", "\"">>, <<"B", "$">>, <<"L", "#">>, <<"B", "+">>,
        <<"v", "#">>, <<"v", "#">>, <<"B", "$">>, <<"v", "\"">>, <<"v", "$">>,
        <<"L", "$">>, <<"B", ".">>, <<"v", "$">>, <<"v", "$">>
    >>,
    \* 9. a program variable with a name of the generated form: B$ L" B+ v" I" v1000000000
    <<
        <<"B", "$">>, <<"L", "\"">>, <<"B", "+">>, <<"v", "\"">>, <<"I", "\"">>,
        <<"v", "1", "0", "0", "0", "0", "0", "0", "0", "0", "0">>
    >>,
    \* 10. an unused argument that is a redex: B$ L" I" B+ I# I$
    <<
        <<"B", "$">>, <<"L", "\"">>, <<"I", "\"">>, <<"B", "+">>, <<"I", "#">>, <<"I", "$">>
    >>,
    \* 11. four applications one after the other: B+ B$ L" v" I" B+ B$ L" v" I" B+ B$ L" v" I" B$ L" v" I"
    <<
        <<"B", "+">>, <<"B", "$">>, <<"L", "\"">>, <<"v", "\"">>, <<"I", "\"">>,
        <<"B", "+">>, <<"B", "$">>, <<"L", "\"">>, <<"v", "\"">>, <<"I", "\"">>,
        <<"B", "+">>, <<"B", "$">>, <<"L", "\"">>, <<"v", "\"">>, <<"I", "\"">>,
        <<"B", "$">>, <<"L", "\"">>, <<"v", "\"">>, <<"I", "\"">>
    >>,
    \* 12. a lambda whose body holds an inner lambda of the same variable, after an argument with that variable was substituted twice: B$ L" B$ L# B. L" v# v# U- v" I!
    <<
        <<"B", "$">>, <<"L", "\"">>, <<"B", "$">>, <<"L", "#">>, <<"B", ".">>,
        <<"L", "\"">>, <<"v", "#">>, <<"v", "#">>, <<"U", "-">>, <<"v", "\"">>, <<"I", "!">>
    >>
    >>

\* random.randint(1_000_000_000, 9_999_999_999) returns a value of
\* RandLo .. RandLo + RandSpan - 1 (the first RandSpan values of its range)
RandLo == 1000000000
RandSpan == 2
RandRange == RandLo..(RandLo + RandSpan - 1)

NoLast == [kind |-> "none"]

\* the parts of the state that evaluate of again.py does not touch
CodecIdle == text = <<>> /\ val = <<>> /\ trace = <<>>
L3Idle == l3src = <<>> /\ l3pc = "idle" /\ l3out = PyRaise("none")
FunIdle == arg = <<>> /\ out = <<>> /\ fns = <<>>

Init ==
    /\ prog \in DOMAIN Programs
    /\ LET tree == parse(EmptyHeap, Programs[prog])
       IN  heap = tree.heap /\ root = tree.node
    /\ pc = "call"
    /\ ret = "none"
    /\ last = NoLast
    /\ fresh = <<>>
    /\ betas = 0
    /\ CodecIdle
    /\ L3Idle
    /\ FunIdle

\* step(node) returns False
StepFalse ==
    /\ pc = "call"
    /\ stepSearch(heap, root).kind = "none"
    /\ pc' = "test"
    /\ ret' = "False"
    /\ last' = NoLast
    /\ UNCHANGED <<heap, root, prog, fresh, betas>>
    /\ UNCHANGED <<codecVars, l3Vars, funVars>>

\* step(node) raises before it changed anything
StepRaise ==
    /\ pc = "call"
    /\ LET r == stepSearch(heap, root)
       IN  /\ r.kind = "raise"
           /\ pc' = "raise"
           /\ ret' = r.err
           /\ last' = r
    /\ UNCHANGED <<heap, root, prog, fresh, betas>>
    /\ UNCHANGED <<codecVars, l3Vars, funVars>>

\* step(node) applies a built-in operator, replaces a variable or selects a branch
StepRewrite ==
    /\ pc = "call"
    /\ LET r == stepSearch(heap, root)
       IN  /\ r.kind = "act"
           /\ r.rule # "apply"
           /\ heap' = stepEffect(heap, r.at, r.rule)
           /\ last' = r
    /\ pc' = "test"
    /\ ret' = "True"
    /\ UNCHANGED <<root, prog, fresh, betas>>
    /\ UNCHANGED <<codecVars, l3Vars, funVars>>

\* step(node) applies a lambda via B$
StepApply ==
    /\ pc = "call"
    /\ LET r == stepSearch(heap, root)
       IN  /\ r.kind = "act"
           /\ r.rule = "apply"
           /\ \E rnd \in RandRange :
                LET a == stepApply(heap, r.at, rnd)
                IN  /\ heap' = a.heap
                    /\ fresh' = Append(fresh, a.new_var)
                    /\ last' = r
                    /\ IF a.err = "none"
                       THEN pc' = "test" /\ ret' = "True" /\ betas' = betas + 1
                       ELSE pc' = "raise" /\ ret' = a.err /\ betas' = betas
    /\ UNCHANGED <<root, prog>>
    /\ UNCHANGED <<codecVars, l3Vars, funVars>>

\* evaluate: while step(node): pass
LoopTest ==
    /\ pc = "test"
    /\ pc' = IF ret = "True" THEN "call" ELSE "done"
    /\ UNCHANGED <<heap, root, ret, prog, last, fresh, betas>>
    /\ UNCHANGED <<codecVars, l3Vars, funVars>>

Next == StepFalse \/ StepRaise \/ StepRewrite \/ StepApply \/ LoopTest

Spec == Init /\ [][Next]_vars

\* A call of step comes back: it returns or it raises.  These are the steps of
\* StepFalse, StepRaise, StepRewrite and StepApply, one of which is enabled
\* whenever pc = "call".
StepReturns == pc = "call" /\ pc' \in {"test", "raise"}

\* evaluate under the scheduling of a running interpreter: a call of step comes
\* back and the while loop then tests what it returned
FairSpec == Spec /\ WF_pc(StepReturns) /\ WF_pc(LoopTest)

----------------------------------------------------------------------------
(* The codec functions, called on every short text, one after the other *)

\* longest text given to a codec function
MaxStrLen == 2

\* the characters of the texts: ASCII 33..126, space and newline
CodecChars == Range(Ascii94) \cup Range(str_reference)

EvalIdle ==
    /\ heap = EmptyHeap /\ root = 0 /\ pc = "idle" /\ ret = "none" /\ prog = 0
    /\ last = NoLast /\ fresh = <<>> /\ betas = 0

CodecInit == text = <<>> /\ val = <<>> /\ trace = <<>> /\ EvalIdle /\ L3Idle /\ FunIdle

\* the caller writes one more character of the text
CodecType ==
    /\ trace = <<>>
    /\ Len(text) < MaxStrLen
    /\ \E c \in CodecChars : text' = Append(text, c)
    /\ val' = text'
    /\ UNCHANGED <<trace, evalVars, l3Vars, funVars>>

\* again.encode(text), or again.encode of what again.decode returned
AgainEncode ==
    /\ trace \in {<<>>, <<"again.decode">>}
    /\ val' = encode(val)
    /\ trace' = Append(trace, "again.encode")
    /\ UNCHANGED <<text, evalVars, l3Vars, funVars>>

\* rewrite.decode(text)
RewriteDecode ==
    /\ trace = <<>>
    /\ val' = rewrite_decode(text)
    /\ trace' = <<"rewrite.decode">>
    /\ UNCHANGED <<text, evalVars, l3Vars, funVars>>

\* again.decode(text), or again.decode of what again.encode returned
AgainDecode ==
    /\ trace \in {<<>>, <<"again.encode">>}
    /\ val' = decode(val)
    /\ trace' = Append(trace, "again.decode")
    /\ UNCHANGED <<text, evalVars, l3Vars, funVars>>

\* strings.encode(text), or strings.encode of what strings.decode returned
StringsEncode ==
    /\ trace \in {<<>>, <<"strings.decode">>}
    /\ val' = strings_encode(val)
    /\ trace' = Append(trace, "strings.encode")
    /\ UNCHANGED <<text, evalVars, l3Vars, funVars>>

\* strings.decode('S' + text), or strings.decode of what strings.encode returned
StringsDecode ==
    /\ \/ trace = <<>> /\ val' = strings_decode(<<"S">> \o text)
       \/ trace = <<"strings.encode">> /\ val' = strings_decode(val)
    /\ trace' = Append(trace, "strings.decode")
    /\ UNCHANGED <<text, evalVars, l3Vars, funVars>>

\* language.encode(Program(Value(text))), or language.encode of what
\* language.decode returned
LanguageEncode ==
    /\ \/ trace = <<>> /\ val' = language_encode([expr |-> [val |-> text]])
       \/ trace = <<"language.decode">> /\ val' = language_encode(val)
    /\ trace' = Append(trace, "language.encode")
    /\ UNCHANGED <<text, evalVars, l3Vars, funVars>>

\* language.decode('S' + text), or language.decode of what language.encode returned
LanguageDecode ==
    /\ \/ trace = <<>> /\ val' = language_decode(<<"S">> \o text)
       \/ trace = <<"language.encode">> /\ val' = language_decode(val)
    /\ trace' = Append(trace, "language.decode")
    /\ UNCHANGED <<text, evalVars, l3Vars, funVars>>

CodecNext ==
    \/ CodecType
    \/ AgainEncode
    \/ AgainDecode
    \/ StringsEncode
    \/ StringsDecode
    \/ LanguageEncode
    \/ LanguageDecode
    \/ RewriteDecode

CodecSpec == CodecInit /\ [][CodecNext]_vars

----------------------------------------------------------------------------
(* l3ng.py: ept, run on the programs below *)

\* first arguments x of B$ B$ L# L$ v# x y
L3Xs ==
    <<
    \* 1. the first argument of the documented example: B. SB%,,/ S}Q/2,$_
    <<
        <<"B", ".">>, <<"S", "B", "%", ",", ",", "/">>,
        <<"S", "}", "Q", "/", "2", ",", "$", "_">>
    >>,
    \* 2. a string: SB%,,/
    <<
        <<"S", "B", "%", ",", ",", "/">>
    >>,
    \* 3. an integer: I"
    <<
        <<"I", "\"">>
    >>,
    \* 4. a boolean: T
    <<
        <<"T">>
    >>,
    \* 5. a sum: B+ I" I#
    <<
        <<"B", "+">>, <<"I", "\"">>, <<"I", "#">>
    >>,
    \* 6. a negation: U- I$
    <<
        <<"U", "-">>, <<"I", "$">>
    >>,
    \* 7. a lambda: L" v"
    <<
        <<"L", "\"">>, <<"v", "\"">>
    >>,
    \* 8. a conditional: ? T S! S"
    <<
        <<"?">>, <<"T">>, <<"S", "!">>, <<"S", "\"">>
    >>,
    \* 9. the variable named like the inner binder: v$
    <<
        <<"v", "$">>
    >>,
    \* 10. a concatenation with that variable: B. v$ S!
    <<
        <<"B", ".">>, <<"v", "$">>, <<"S", "!">>
    >>,
    \* 11. a division by zero: B/ I" I!
    <<
        <<"B", "/">>, <<"I", "\"">>, <<"I", "!">>
    >>
    >>

\* second arguments y of B$ B$ L# L$ v# x y
L3Ys ==
    <<
    \* 1. the second argument of the documented example: IK
    <<
        <<"I", "K">>
    >>,
    \* 2. a division by zero: B/ I" I!
    <<
        <<"B", "/">>, <<"I", "\"">>, <<"I", "!">>
    >>,
    \* 3. the negation of a string: U- S!
    <<
        <<"U", "-">>, <<"S", "!">>
    >>,
    \* 4. the self-application (L x. x x)(L x. x x): B$ L" B$ v" v" L" B$ v" v"
    <<
        <<"B", "$">>, <<"L", "\"">>, <<"B", "$">>, <<"v", "\"">>, <<"v", "\"">>,
        <<"L", "\"">>, <<"B", "$">>, <<"v", "\"">>, <<"v", "\"">>
    >>,
    \* 5. the application of an integer: B$ I! I!
    <<
        <<"B", "$">>, <<"I", "!">>, <<"I", "!">>
    >>,
    \* 6. the string of a negative integer: U$ U- I"
    <<
        <<"U", "$">>, <<"U", "-">>, <<"I", "\"">>
    >>,
    \* 7. a variable: v#
    <<
        <<"v", "#">>
    >>,
    \* 8. a conditional on an integer: ? I! T F
    <<
        <<"?">>, <<"I", "!">>, <<"T">>, <<"F">>
    >>
    >>

\* the programs of the assert ept(...) lines of l3ng.py
L3Examples ==
    <<
    \* 1. T
    <<
        <<"T">>
    >>,
    \* 2. F
    <<
        <<"F">>
    >>,
    \* 3. I/6
    <<
        <<"I", "/", "6">>
    >>,
    \* 4. SB%,,/}Q/2,$_
    <<
        <<"S", "B", "%", ",", ",", "/", "}", "Q", "/", "2", ",", "$", "_">>
    >>,
    \* 5. U- I$
    <<
        <<"U", "-">>, <<"I", "$">>
    >>,
    \* 6. U! T
    <<
        <<"U", "!">>, <<"T">>
    >>,
    \* 7. U# S4%34
    <<
        <<"U", "#">>, <<"S", "4", "%", "3", "4">>
    >>,
    \* 8. U$ I4%34
    <<
        <<"U", "$">>, <<"I", "4", "%", "3", "4">>
    >>,
    \* 9. B+ I# I$
    <<
        <<"B", "+">>, <<"I", "#">>, <<"I", "$">>
    >>,
    \* 10. B- I$ I#
    <<
        <<"B", "-">>, <<"I", "$">>, <<"I", "#">>
    >>,
    \* 11. B* I$ I#
    <<
        <<"B", "*">>, <<"I", "$">>, <<"I", "#">>
    >>,
    \* 12. B/ U- I( I#
    <<
        <<"B", "/">>, <<"U", "-">>, <<"I", "(">>, <<"I", "#">>
    >>,
    \* 13. B% U- I( I#
    <<
        <<"B", "%">>, <<"U", "-">>, <<"I", "(">>, <<"I", "#">>
    >>,
    \* 14. B< I$ I#
    <<
        <<"B", "<">>, <<"I", "$">>, <<"I", "#">>
    >>,
    \* 15. B> I$ I#
    <<
        <<"B", ">">>, <<"I", "$">>, <<"I", "#">>
    >>,
    \* 16. B= I$ I#
    <<
        <<"B", "=">>, <<"I", "$">>, <<"I", "#">>
    >>,
    \* 17. B| T F
    <<
        <<"B", "|">>, <<"T">>, <<"F">>
    >>,
    \* 18. B& T F
    <<
        <<"B", "&">>, <<"T">>, <<"F">>
    >>,
    \* 19. B. S4% S34
    <<
        <<"B", ".">>, <<"S", "4", "%">>, <<"S", "3", "4">>
    >>,
    \* 20. BT I$ S4%34
    <<
        <<"B", "T">>, <<"I", "$">>, <<"S", "4", "%", "3", "4">>
    >>,
    \* 21. BD I$ S4%34
    <<
        <<"B", "D">>, <<"I", "$">>, <<"S", "4", "%", "3", "4">>
    >>,
    \* 22. B$ B$ L# L$ v# B. SB%,,/ S}Q/2,$_ IK
    <<
        <<"B", "$">>, <<"B", "$">>, <<"L", "#">>, <<"L", "$">>, <<"v", "#">>, <<"B", ".">>,
        <<"S", "B", "%", ",", ",", "/">>, <<"S", "}", "Q", "/", "2", ",", "$", "_">>,
        <<"I", "K">>
    >>,
    \* 23. ? B> I# I$ S9%3 S./
    <<
        <<"?">>, <<"B", ">">>, <<"I", "#">>, <<"I", "$">>, <<"S", "9", "%", "3">>,
        <<"S", ".", "/">>
    >>
    >>

\* the tokens of B$ B$ L# L$ v# x y
C6Program(x, y) ==
    << <<"B", "$">>, <<"B", "$">>, <<"L", "#">>, <<"L", "$">>, <<"v", "#">> >> \o x \o y

L3Programs ==
    { C6Program(L3Xs[i], L3Ys[j]) : i \in DOMAIN L3Xs, j \in DOMAIN L3Ys }
        \cup Range(L3Examples)

L3Init ==
    /\ l3src \in L3Programs
    /\ l3pc = "start"
    /\ l3out = PyRaise("none")
    /\ EvalIdle
    /\ CodecIdle
    /\ FunIdle

\* ept(s) returns a value
EptReturn ==
    /\ l3pc = "start"
    /\ ept(l3src).t # "raise"
    /\ l3out' = ept(l3src)
    /\ l3pc' = "done"
    /\ UNCHANGED <<l3src, evalVars, codecVars, funVars>>

\* ept(s) raises (or, for "NoReturn", never comes back)
EptRaise ==
    /\ l3pc = "start"
    /\ ept(l3src).t = "raise"
    /\ l3out' = ept(l3src)
    /\ l3pc' = "raise"
    /\ UNCHANGED <<l3src, evalVars, codecVars, funVars>>

L3Next == EptReturn \/ EptRaise

L3Spec == L3Init /\ [][L3Next]_vars

----------------------------------------------------------------------------
(* Both evaluators, again.evaluate and l3ng.ept, run on the same program:  *)
(* every binary operator applied to every pair of the operands below       *)

\* largest absolute value of an integer operand
MaxOperand == 7

\* the tokens of an int: I and its base-94 body, under U- when negative (the
\* form Node.fromint builds)
IntTerm(n) ==
    IF n >= 0 THEN << <<"I">> \o b942c(n) >>
    ELSE << <<"U", "-">>, <<"I">> \o b942c(-n) >>

\* operands that are no integer: T, F, U! T, S (empty body), Sa, Sab (bodies
\* ! and !"), a variable and a lambda
OtherOperands ==
    { << <<"T">> >>, << <<"F">> >>, << <<"U", "!">>, <<"T">> >>,
      << <<"S">> >>, << <<"S", "!">> >>, << <<"S", "!", "\"">> >>,
      << <<"v", "\"">> >>, << <<"L", "\"">>, <<"v", "\"">> >> }

Operands == { IntTerm(n) : n \in -MaxOperand .. MaxOperand } \cup OtherOperands

\* the type of the value of an operand: "int", "bool", "str", or "none" for
\* the variable and the lambda
OperandType(x) ==
    IF x \in { IntTerm(n) : n \in -MaxOperand .. MaxOperand } THEN "int"
    ELSE IF x[1] \in { <<"T">>, <<"F">>, <<"U", "!">> } THEN "bool"
    ELSE IF x[1][1] = "S" THEN "str"
    ELSE "none"

\* the tokens of B<op> x y
BinProgram(op, x, y) == << <<"B">> \o op >> \o x \o y

OpPrograms == { BinProgram(op, x, y) : op \in BinaryBodies, x \in Operands, y \in Operands }

\* both evaluators are given the same program, one of programs
BothInit(programs) ==
    /\ l3src \in programs
    /\ l3pc = "start"
    /\ l3out = PyRaise("none")
    /\ LET tree == parse(EmptyHeap, l3src)
       IN  heap = tree.heap /\ root = tree.node
    /\ pc = "call"
    /\ ret = "none"
    /\ prog = 0
    /\ last = NoLast
    /\ fresh = <<>>
    /\ betas = 0
    /\ CodecIdle
    /\ FunIdle

OpInit == BothInit(OpPrograms)

OpNext == Next \/ L3Next

OpSpec == OpInit /\ [][OpNext]_vars

----------------------------------------------------------------------------
(* Both evaluators on closed, well-typed programs: a lambda whose body       *)
(* applies a binary operator to the bound variable and a literal, applied to *)
(* a literal of the type the operator takes at that place                    *)

\* the binary operators with the types of their operands
Signatures ==
    { <<op, "int", "int">> : op \in {"+", "-", "*", "/", "%", "<", ">", "="} }
        \cup { <<op, "bool", "bool">> : op \in {"|", "&", "="} }
        \cup { <<op, "str", "str">> : op \in {".", "="} }
        \cup { <<op, "int", "str">> : op \in {"T", "D"} }

OperandsOf(type) == { x \in Operands : OperandType(x) = type }

\* the tokens of B$ L" body a, the bound variable being v"
LambdaApplied(expression, a) == << <<"B", "$">>, <<"L", "\"">> >> \o expression \o a
BoundVariable == << <<"v", "\"">> >>

TypedPrograms ==
    UNION { { LambdaApplied(BinProgram(<<sig[1]>>, BoundVariable, c), a) :
                a \in OperandsOf(sig[2]), c \in OperandsOf(sig[3]) }
            \cup { LambdaApplied(BinProgram(<<sig[1]>>, c, BoundVariable), a) :
                      c \in OperandsOf(sig[2]), a \in OperandsOf(sig[3]) }
            : sig \in Signatures }

TypedInit == BothInit(TypedPrograms)

TypedSpec == TypedInit /\ [][OpNext]_vars

----------------------------------------------------------------------------
(* Both evaluators on BT n s and BD n s *)

\* longest body of the string operand
MaxSliceLen == 4

\* the string operands: the bodies of at most MaxSliceLen characters over 4, %
\* and 3 (t, e and s), S4%34 ('test') among them
SliceBodies == UNION { [1 .. k -> {"4", "%", "3"}] : k \in 0 .. MaxSliceLen }

SlicePrograms ==
    { BinProgram(op, IntTerm(n), << <<"S">> \o s >>) :
        op \in { <<"T">>, <<"D">> }, n \in 0 .. MaxOperand, s \in SliceBodies }

\* a slice whose string is the result of an application, and a slice of the
\* bound variable inside a lambda: BT I$ B$ L" v" S4%34 and B$ L" BT v" S4%34 I$
SliceInside ==
    { << <<"B", "T">>, <<"I", "$">>, <<"B", "$">>, <<"L", "\"">>, <<"v", "\"">>,
         <<"S", "4", "%", "3", "4">> >>,
      << <<"B", "$">>, <<"L", "\"">>, <<"B", "T">>, <<"v", "\"">>,
         <<"S", "4", "%", "3", "4">>, <<"I", "$">> >> }

\* l3ng.evaluate(parsed) on the tuple of l3src: the one parse returns, and for
\* S with an empty body, which parse rejects, the tuple (token, left, right)
\* of its three tokens; out is what evaluate returns or raises
L3Evaluate ==
    /\ fns = <<>>
    /\ out' = l3evaluate(IF l3parse(l3src).err = "none" THEN l3parse(l3src).term
                         ELSE Tuple(l3src[1], <<Leaf(l3src[2]), Leaf(l3src[3])>>), 1)
    /\ fns' = <<"l3ng.evaluate">>
    /\ UNCHANGED <<arg, evalVars, codecVars, l3Vars>>

SliceNext == Next \/ L3Evaluate

SliceInit == BothInit(SlicePrograms \cup SliceInside)

SliceSpec == SliceInit /\ [][SliceNext]_vars

----------------------------------------------------------------------------
(* evaluate called a second time, on what the first call returned *)

\* again.evaluate(node) on the node the first call returned; arg keeps the
\* heap as the first call left it
EvaluateResult ==
    /\ pc = "done"
    /\ "again.evaluate" \notin Range(fns)
    /\ pc' = "call"
    /\ arg' = heap
    /\ fns' = Append(fns, "again.evaluate")
    /\ UNCHANGED <<heap, root, ret, prog, last, fresh, betas, out>>
    /\ UNCHANGED <<codecVars, l3Vars>>

\* l3ng.evaluate(value) on the value ept returned; out is what this call
\* returns or raises
EvaluateValue ==
    /\ l3pc = "done"
    /\ "l3ng.evaluate" \notin Range(fns)
    /\ out' = l3evaluateValue(l3out)
    /\ fns' = Append(fns, "l3ng.evaluate")
    /\ UNCHANGED <<arg, evalVars, codecVars, l3Vars>>

TwiceNext == OpNext \/ EvaluateResult \/ EvaluateValue

TwiceSpec == OpInit /\ [][TwiceNext]_vars

----------------------------------------------------------------------------
(* The parsers, called on every short list of the tokens below *)

\* longest list of tokens given to a parser
MaxTokens == 4

\* tokens with a body the grammar allows, tokens with one it does not (T!, I,
\* U, U%, B, v), and a token of unknown indicator
ParseTokens ==
    { <<"T">>, <<"T", "!">>, <<"I">>, <<"I", "!">>, <<"S">>, <<"S", "!">>,
      <<"U">>, <<"U", "-">>, <<"U", "%">>, <<"B">>, <<"B", "+">>, <<"?">>,
      <<"L", "\"">>, <<"v">>, <<"v", "\"">>, <<"X">> }

ParseInit ==
    /\ arg = <<>>
    /\ out = <<>>
    /\ fns = <<>>
    /\ EvalIdle /\ CodecIdle /\ L3Idle

\* the caller appends one more token to the list
ParseType ==
    /\ fns = <<>>
    /\ Len(arg) < MaxTokens
    /\ \E token \in ParseTokens : arg' = Append(arg, token)
    /\ UNCHANGED <<out, fns, evalVars, codecVars, l3Vars>>

\* l3ng.parse(arg)
L3Parse ==
    /\ fns = <<>>
    /\ out' = l3parse(arg)
    /\ fns' = <<"l3ng.parse">>
    /\ UNCHANGED <<arg, evalVars, codecVars, l3Vars>>

\* again.parse(arg)
AgainParse ==
    /\ fns = <<>>
    /\ out' = parse(EmptyHeap, arg)
    /\ fns' = <<"again.parse">>
    /\ UNCHANGED <<arg, evalVars, codecVars, l3Vars>>

\* trans.parse(arg)
TransParse ==
    /\ fns = <<>>
    /\ out' = trparse(arg)
    /\ fns' = <<"trans.parse">>
    /\ UNCHANGED <<arg, evalVars, codecVars, l3Vars>>

ParseNext == ParseType \/ L3Parse \/ AgainParse \/ TransParse

ParseSpec == ParseInit /\ [][ParseNext]_vars

----------------------------------------------------------------------------
(* parse of l3ng.py and of l4ng.py, then unparse, on every short list of    *)
(* the tokens below                                                         *)

\* longest list of tokens parsed and unparsed
MaxUnparse == 5

\* a token of each arity, and the tokens of l4ng: I, B$, L and v
UnparseTokens ==
    { <<"T">>, <<"I", "!">>, <<"U", "-">>, <<"B", "$">>, <<"?">>, <<"L", "\"">>,
      <<"v", "\"">> }

\* the caller appends one more token to the list
UnparseType ==
    /\ fns = <<>>
    /\ Len(arg) < MaxUnparse
    /\ \E token \in UnparseTokens : arg' = Append(arg, token)
    /\ UNCHANGED <<out, fns, evalVars, codecVars, l3Vars>>

\* l4ng.parse(arg)
L4Parse ==
    /\ fns = <<>>
    /\ out' = l4parse(arg)
    /\ fns' = <<"l4ng.parse">>
    /\ UNCHANGED <<arg, evalVars, codecVars, l3Vars>>

\* l4ng.unparse(*parse(arg)), where parse returned
Unparse ==
    /\ fns \in {<<"l3ng.parse">>, <<"l4ng.parse">>}
    /\ out.err = "none"
    /\ out' = [parsed |-> out,
               tokens |-> unparse(out.term, out.rest).tokens,
               err |-> unparse(out.term, out.rest).err]
    /\ fns' = Append(fns, "l4ng.unparse")
    /\ UNCHANGED <<arg, evalVars, codecVars, l3Vars>>

UnparseNext == UnparseType \/ L3Parse \/ L4Parse \/ Unparse

UnparseSpec == ParseInit /\ [][UnparseNext]_vars

----------------------------------------------------------------------------
(* alang.py: ICFP(program).run() on the programs of the operators *)

\* calls of ICFP.step in one run
MaxSteps == 6

\* ICFP(arg): the root parsed, no variables; out is the ICFP object together
\* with what its last call of step returned or raised
AlangInit ==
    /\ arg \in OpPrograms
    /\ out = [root |-> alparse(arg).term, variables |-> <<>>, ret |-> "none"]
    /\ fns = <<>>
    /\ EvalIdle /\ CodecIdle /\ L3Idle

\* run: while self.step()
Running == out.ret \in {"none", "True"} /\ Len(fns) < MaxSteps

\* ICFP.step applies the first affordance and returns True
ICFPStepTrue ==
    /\ Running
    /\ alstep(out.root, out.variables).kind = "act"
    /\ out' = [root |-> alstep(out.root, out.variables).term,
               variables |-> alstep(out.root, out.variables).variables,
               ret |-> "True"]
    /\ fns' = Append(fns, "ICFP.step")
    /\ UNCHANGED <<arg, evalVars, codecVars, l3Vars>>

\* ICFP.step finds no affordance and returns False: run returns the root
ICFPStepFalse ==
    /\ Running
    /\ alstep(out.root, out.variables).kind = "none"
    /\ out' = [out EXCEPT !.ret = "False"]
    /\ fns' = Append(fns, "ICFP.step")
    /\ UNCHANGED <<arg, evalVars, codecVars, l3Vars>>

\* the apply of the first affordance raises
ICFPStepRaise ==
    /\ Running
    /\ alstep(out.root, out.variables).kind = "raise"
    /\ out' = [out EXCEPT !.ret = alstep(out.root, out.variables).err]
    /\ fns' = Append(fns, "ICFP.step")
    /\ UNCHANGED <<arg, evalVars, codecVars, l3Vars>>

AlangNext == ICFPStepTrue \/ ICFPStepFalse \/ ICFPStepRaise

AlangSpec == AlangInit /\ [][AlangNext]_vars

----------------------------------------------------------------------------
(* The rule engine of alang.py and l3ng.ept on U$ U# s and U# U$ n *)

\* the bodies of s and n: at most MaxSliceLen characters over !, 4 and %
\* (the digits 0, 19 and 4; the characters a, t and e)
InverseBodies == UNION { [1 .. k -> {"!", "4", "%"}] : k \in 0 .. MaxSliceLen }

\* U$ U# S<body> and U# U$ I<body>, and U# U$ of a variable
InversePrograms ==
    { << <<"U", "$">>, <<"U", "#">>, <<"S">> \o b >> : b \in InverseBodies }
        \cup { << <<"U", "#">>, <<"U", "$">>, <<"I">> \o b >> : b \in InverseBodies }
        \cup { << <<"U", "#">>, <<"U", "$">>, <<"v", "\"">> >> }

\* ICFP(arg) and ept(l3src) are given the same program
InverseInit ==
    /\ arg \in InversePrograms
    /\ out = [root |-> alparse(arg).term, variables |-> <<>>, ret |-> "none"]
    /\ fns = <<>>
    /\ l3src = arg
    /\ l3pc = "start"
    /\ l3out = PyRaise("none")
    /\ EvalIdle /\ CodecIdle

InverseNext == AlangNext \/ L3Next

InverseSpec == InverseInit /\ [][InverseNext]_vars

----------------------------------------------------------------------------
(* Both evaluators on the programs of U# and U$ *)

\* U# under a lambda, a division by U# of the empty string, and U# of a
\* concatenation
IntInside ==
    { << <<"B", "$">>, <<"L", "\"">>, <<"U", "#">>, <<"v", "\"">>, <<"S">> >>,
      << <<"B", "/">>, <<"U", "#">>, <<"S", "!", "!">>, <<"U", "#">>, <<"S">> >>,
      << <<"U", "#">>, <<"B", ".">>, <<"S">>, <<"S">> >> }

IntInit == BothInit(InversePrograms \cup IntInside)

IntSpec == IntInit /\ [][OpNext]_vars

----------------------------------------------------------------------------
(* The Lambda-Man simulators: Level of problems/lambdaman/lambdaman.py and  *)
(* LambdaMan of icfp_lang/aray.py.  A grid is the list of its rows, a row   *)
(* the list of its characters; x is the row and y the column, from 0.  An   *)
(* object is its grid and its solution (the level number plays no part).    *)

\* steps taken on the two objects together
MaxMoves == 4

\* the grids the objects are loaded with: exactly one L, walls and pills
Grids ==
    { << <<"L", ".", "#">>,
         <<".", ".", ".">> >>,
      << <<"#", ".", "L", ".">> >> }

Directions == {"U", "R", "D", "L"}

height(grid) == Len(grid)

width(grid) == Len(grid[1])

\* number of remaining pills
remaining(grid) ==
    Cardinality({ p \in (1 .. height(grid)) \X (1 .. width(grid)) : grid[p[1]][p[2]] = "." })

\* location of Lambda in the grid: the first row that holds an L, and the
\* first L of that row
LambdaAt(grid) ==
    LET i == CHOOSE i \in 1 .. height(grid) :
                 /\ "L" \in Range(grid[i])
                 /\ \A k \in 1 .. i - 1 : "L" \notin Range(grid[k])
    IN <<i - 1, IndexOf("L", grid[i]) - 1>>

\* grid[x][y] = c
SetCell(grid, x, y, c) == [grid EXCEPT ![x + 1][y + 1] = c]

\* Level.step(direction)
LevelStep(self, direction) ==
    LET x == LambdaAt(self.grid)[1]
        y == LambdaAt(self.grid)[2]
        dx == CASE direction = "U" -> -1 [] direction = "D" -> 1 [] OTHER -> 0
        dy == CASE direction = "L" -> -1 [] direction = "R" -> 1 [] OTHER -> 0
        new_x == x + dx
        new_y == y + dy
    IN IF /\ 0 <= new_x /\ new_x < height(self.grid)
          /\ 0 <= new_y /\ new_y < width(self.grid)
          /\ self.grid[new_x + 1][new_y + 1] # "#"
       THEN [self |-> [grid |-> SetCell(SetCell(self.grid, x, y, " "), new_x, new_y, "L"),
                       solution |-> Append(self.solution, direction)],
             ret |-> "None"]
       ELSE [self |-> self, ret |-> "ValueError"]

\* LambdaMan.step(direction): the asserts, then the move
LambdaManStep(self, direction) ==
    LET src == LambdaAt(self.grid)
        failed == \/ direction = "U" /\ ~(src[1] > 0)
                  \/ direction = "D" /\ ~(src[1] < height(self.grid) - 1)
                  \/ direction = "L" /\ ~(src[2] > 0)
                  \/ direction = "R" /\ ~(src[2] < width(self.grid) - 1)
        x == CASE direction = "U" -> src[1] - 1 [] direction = "D" -> src[1] + 1
               [] OTHER -> src[1]
        y == CASE direction = "L" -> src[2] - 1 [] direction = "R" -> src[2] + 1
               [] OTHER -> src[2]
    IN IF failed THEN [self |-> self, ret |-> "AssertionError"]
       ELSE IF /\ 0 <= x /\ x < height(self.grid)
               /\ 0 <= y /\ y < width(self.grid)
               /\ self.grid[x + 1][y + 1] # "#"
       THEN [self |-> [grid |-> SetCell(SetCell(self.grid, x, y, "L"), src[1], src[2], " "),
                       solution |-> Append(self.solution, direction)],
             ret |-> "None"]
       ELSE [self |-> self, ret |-> "ValueError"]

\* a Level and a LambdaMan, each with its own copy of the grid; no step yet
LambdaInit ==
    /\ \E grid \in Grids :
          out = [level |-> [grid |-> grid, solution |-> <<>>],
                 lambdaman |-> [grid |-> grid, solution |-> <<>>],
                 ret |-> "none"]
    /\ arg = <<>>
    /\ fns = <<>>
    /\ EvalIdle /\ CodecIdle /\ L3Idle

\* level.step(direction); out.ret is None or the exception raised
LevelStepCall ==
    /\ Len(fns) < MaxMoves
    /\ \E direction \in Directions :
          /\ arg' = <<direction>>
          /\ out' = [out EXCEPT !.level = LevelStep(out.level, direction).self,
                                !.ret = LevelStep(out.level, direction).ret]
    /\ fns' = Append(fns, "Level.step")
    /\ UNCHANGED <<evalVars, codecVars, l3Vars>>

\* lambdaman.step(direction)
LambdaManStepCall ==
    /\ Len(fns) < MaxMoves
    /\ \E direction \in Directions :
          /\ arg' = <<direction>>
          /\ out' = [out EXCEPT !.lambdaman = LambdaManStep(out.lambdaman, direction).self,
                                !.ret = LambdaManStep(out.lambdaman, direction).ret]
    /\ fns' = Append(fns, "LambdaMan.step")
    /\ UNCHANGED <<evalVars, codecVars, l3Vars>>

LambdaNext == LevelStepCall \/ LambdaManStepCall

LambdaSpec == LambdaInit /\ [][LambdaNext]_vars

----------------------------------------------------------------------------
(* Properties of again.step / again.evaluate *)

\* the nodes of the tree below n (children lists only), n included
RECURSIVE TreeNodes(_, _, _)
TreeNodes(H, todo, seen) ==
    IF todo = {} THEN seen
    ELSE LET n == CHOOSE x \in todo : TRUE
         IN  TreeNodes(H, (todo \cup Range(H.children[n])) \ (seen \cup {n}), seen \cup {n})

Stopped == pc \in {"done", "raise"}

\* C1: beta reduction is capture-avoiding.  In program 4, (L v. L w. v) w 0, the
\* argument w is free and the body binds w at an inner lambda: the w that came
\* from the argument stays free, so the normal form is the variable w itself.
C1_CaptureAvoiding ==
    (prog = 4 /\ pc = "done") => heap.token[root] = <<"v", "#">>

\* C2: application is call-by-name: no step acts inside the right operand of a
\* B$ node (an argument is reduced only where it was substituted).
C2_CallByName ==
    last.kind = "act" =>
        \A i \in DOMAIN last.path :
            ~(last.path[i].token = <<"B", "$">> /\ last.path[i].idx = 2)

\* the step limit of the reducer: stands for 10,000,000
StepLimit == 2

\* C3: the reducer aborts once its count of beta reductions exceeds the limit:
\* no run of evaluate applies a lambda more than StepLimit + 1 times.
C3_StepLimit == betas <= StepLimit + 1

\* C4: every invocation of evaluate eventually stops, by returning or by raising.
C4_EvaluateStops == <>Stopped

\* C5: the documented term of 109 beta reductions (program 7) evaluates to the
\* integer 16 with exactly 109 applications of a lambda.
C5_Term109 ==
    (prog = 7 /\ Stopped) =>
        /\ pc = "done"
        /\ heap.token[root] = <<"I">> \o b942c(16)
        /\ betas = 109

\* C7: a conditional reduces one branch only: a step acts inside the then- or
\* else-subtree of a ? node only when the condition of that node is a boolean
\* and the subtree is the branch the condition selects.
C7_IfOneBranch ==
    [][ (pc = "call" /\ last'.kind = "act") =>
            \A i \in DOMAIN last'.path :
                (last'.path[i].token = <<"?">> /\ last'.path[i].idx \in {2, 3}) =>
                    LET cond == heap.children[last'.path[i].node][1]
                    IN  /\ isbool(heap, cond)
                        /\ last'.path[i].idx = (IF asbool(heap, cond) = "True" THEN 2 ELSE 3)
      ]_vars

\* C8: every use of a bound variable is an independent copy: no node is a child
\* at two positions of the tree and the stored substitution values.
C8_NoSharedNodes ==
    LET stored == UNION { { heap.dicts[d][k][2] : k \in DOMAIN heap.dicts[d] } :
                               d \in DOMAIN heap.dicts }
        live == TreeNodes(heap, {root} \cup stored, {})
    IN  \A a, b \in live : \A i \in DOMAIN heap.children[a] :
            \A j \in DOMAIN heap.children[b] :
                heap.children[a][i] = heap.children[b][j] => (a = b /\ i = j)

\* the variable names of the parsed program: 'v' + body of its v and L tokens
ProgramNames(p) ==
    { <<"v">> \o Tail(Programs[p][i]) :
        i \in { j \in DOMAIN Programs[p] : Programs[p][j][1] \in {"v", "L"} } }

\* C9: every generated variable name is new: it is no name of the program and
\* no name generated before.
C9_FreshNamesUnique ==
    /\ \A i \in DOMAIN fresh : fresh[i] \notin ProgramNames(prog)
    /\ \A i, j \in DOMAIN fresh : i # j => fresh[i] # fresh[j]

\* C22: substitution never crosses a binder of the same variable: when step
\* applies a lambda L v, the rename of v in its body leaves every inner lambda
\* L v of the body, and every node below one, with the token it had.
C22_RenameStopsAtBinder ==
    [][ (pc = "call" /\ last'.kind = "act" /\ last'.rule = "apply") =>
            LET left == heap.children[last'.at][1]
                expression == heap.children[left][1]
                bound == <<"v">> \o body(heap, left)
                inner == { m \in TreeNodes(heap, {expression}, {}) :
                             indicator(heap, m) = "L" /\ body(heap, m) = body(heap, left) }
            IN  \A m \in TreeNodes(heap, inner, {}) :
                    rename(heap, expression, bound, fresh'[Len(fresh')]).heap.token[m] = heap.token[m]
      ]_vars

\* C23: evaluation is deterministic: two runs of evaluate on the same tokens
\* go through the same terms, token for token.  A second copy of the state,
\* stepped together with this one, has after an application the tokens this
\* one has, whatever random.randint returns to it.
C23_Deterministic ==
    [][ (pc = "call" /\ last'.kind = "act" /\ last'.rule = "apply") =>
            \A rnd \in RandRange : stepApply(heap, last'.at, rnd).heap.token = heap'.token
      ]_vars

----------------------------------------------------------------------------
(* Properties of the string codecs *)

\* text is made only of the 94 characters of the alphabet
AlphabetText == Range(text) \subseteq Range(str_reference)
\* text is made only of ASCII 33..126
AsciiBody == Range(text) \subseteq Range(Ascii94)

\* C10: string codec round trip: decode(encode(text)) = text for every text of
\* alphabet characters and encode(decode(body)) = body for every body of ASCII
\* 33..126, for again.py, strings.py and language.py (the last two with their
\* 'S' prefix).
C10_CodecRoundTrip ==
    /\ (trace = <<"again.encode", "again.decode">> /\ AlphabetText) => val = text
    /\ (trace = <<"again.decode", "again.encode">> /\ AsciiBody) => val = text
    /\ (trace = <<"strings.encode", "strings.decode">> /\ AlphabetText) => val = text
    /\ (trace = <<"strings.decode", "strings.encode">> /\ AsciiBody)
            => val = <<"S">> \o text
    /\ (trace = <<"language.encode", "language.decode">> /\ AlphabetText)
            => val = [expr |-> [val |-> text]]
    /\ (trace = <<"language.decode", "language.encode">> /\ AsciiBody)
            => val = <<"S">> \o text

\* C10: a text with a space came back from decode(encode(text)) of strings.py
C10_Witness ==
    /\ trace = <<"strings.encode", "strings.decode">>
    /\ text = <<"H", " ">>
    /\ val = text

\* C13: the string codec rejects input outside its domain: encode returns only
\* for a text of alphabet characters (never for one with '{' or '}'), and decode
\* returns only for a body of ASCII 33..126 (never for one with a space); trace
\* holds the calls that returned.
C13_RejectsOutOfDomain ==
    /\ (trace # <<>> /\ trace[1] = "again.encode") => AlphabetText
    /\ (trace # <<>> /\ trace[1] \in {"again.decode", "rewrite.decode"}) => AsciiBody

----------------------------------------------------------------------------
(* The base-94 integer codecs, called on every small non-negative int *)

\* largest int given to an encoder: 94 * 94, the first with three digits
MaxNum == 8836

Base94Init ==
    /\ arg \in 0 .. MaxNum
    /\ out = <<>>
    /\ fns = <<>>
    /\ EvalIdle /\ CodecIdle /\ L3Idle

\* again.b942c(arg)
AgainB942c ==
    /\ fns = <<>>
    /\ out' = b942c(arg)
    /\ fns' = <<"again.b942c">>
    /\ UNCHANGED <<arg, evalVars, codecVars, l3Vars>>

\* l3ng.b942c(arg)
L3B942c ==
    /\ fns = <<>>
    /\ out' = l3b942c(arg)
    /\ fns' = <<"l3ng.b942c">>
    /\ UNCHANGED <<arg, evalVars, codecVars, l3Vars>>

\* chunkify.fromint(arg)
ChunkifyFromint ==
    /\ fns = <<>>
    /\ out' = fromint(arg)
    /\ fns' = <<"chunkify.fromint">>
    /\ UNCHANGED <<arg, evalVars, codecVars, l3Vars>>

\* again.c2b94 of what an encoder returned
AgainC2b94 ==
    /\ Len(fns) = 1
    /\ out' = c2b94(out)
    /\ fns' = Append(fns, "again.c2b94")
    /\ UNCHANGED <<arg, evalVars, codecVars, l3Vars>>

\* l3ng.c2b94 of what an encoder returned
L3C2b94 ==
    /\ Len(fns) = 1
    /\ out' = l3c2b94(out)
    /\ fns' = Append(fns, "l3ng.c2b94")
    /\ UNCHANGED <<arg, evalVars, codecVars, l3Vars>>

\* chunkify.toint of what an encoder returned
ChunkifyToint ==
    /\ Len(fns) = 1
    /\ out' = toint(out)
    /\ fns' = Append(fns, "chunkify.toint")
    /\ UNCHANGED <<arg, evalVars, codecVars, l3Vars>>

Base94Next ==
    \/ AgainB942c
    \/ L3B942c
    \/ ChunkifyFromint
    \/ AgainC2b94
    \/ L3C2b94
    \/ ChunkifyToint

Base94Spec == Base94Init /\ [][Base94Next]_vars

----------------------------------------------------------------------------
(* Properties of the base-94 integer codecs *)

\* C11: base-94 integer round trip: for every non-negative integer n, decoding
\* what an encoder returned for n gives n again (again.py, l3ng.py, chunkify.py,
\* in every pairing); digits are ASCII 33..126 with '!' as 0, most significant
\* first: b942c(1337) is '/6'.
C11_Base94RoundTrip ==
    /\ Len(fns) = 2 => out = arg
    /\ (Len(fns) = 1 /\ arg = 1337) => out = <<"/", "6">>

\* C11: 1337 went through again.b942c and came back from again.c2b94
C11_Witness ==
    /\ fns = <<"again.b942c", "again.c2b94">>
    /\ arg = 1337
    /\ out = 1337

\* C12: every base-94 encoder returns '!' for 0, never the empty string, and
\* for n > 0 a body whose first digit is not '!'.
C12_MinimalBody ==
    Len(fns) = 1 =>
        /\ out # <<>>
        /\ arg = 0 => out = <<"!">>
        /\ arg > 0 => out[1] # "!"

----------------------------------------------------------------------------
(* Properties of the operators, for again.evaluate and l3ng.ept alike *)

\* again.evaluate returned an int node of value n (a negative n under U-)
AgainInt(n) == pc = "done" /\ isint(heap, root) /\ asint(heap, root) = n
\* l3ng.ept returned the int n
L3Int(n) == l3pc = "done" /\ l3out.t = "int" /\ l3out.v = n

\* C14: for all integers a and b with b # 0, B/ a b is the quotient truncated
\* toward zero and B% a b is a - b * (a B/ b), whose sign is that of the
\* dividend or zero; B/ U- I( I# is -3 and B% U- I( I# is -1.  Both evaluators
\* return that value and neither raises.
C14_TruncatedDivision ==
    \A a, b \in -MaxOperand .. MaxOperand : \A op \in {"/", "%"} :
        (b # 0 /\ l3src = BinProgram(<<op>>, IntTerm(a), IntTerm(b))) =>
            LET abs(x) == IF x < 0 THEN -x ELSE x
                \* the largest m with m * |b| <= |a|; the quotient is m, negative
                \* when the signs of a and b differ
                mag == CHOOSE m \in 0 .. abs(a) :
                           m * abs(b) <= abs(a) /\ abs(a) < (m + 1) * abs(b)
                q == IF (a < 0) = (b < 0) THEN mag ELSE -mag
                r == a - b * q
                expected == IF op = "/" THEN q ELSE r
            IN  /\ pc # "raise"
                /\ l3pc # "raise"
                /\ pc = "done" => AgainInt(expected)
                /\ l3pc = "done" => L3Int(expected)
                /\ r = 0 \/ (r < 0) = (a < 0)
                /\ abs(r) < abs(b)
                /\ (a = -7 /\ b = 2) => (q = -3 /\ r = -1)

\* C14: both evaluators returned -3 for B/ U- I( I#
C14_Witness ==
    /\ l3src = << <<"B", "/">>, <<"U", "-">>, <<"I", "(">>, <<"I", "#">> >>
    /\ AgainInt(-3)
    /\ L3Int(-3)

\* C24: arithmetic on two integer operands succeeds (division by zero aside)
\* and its result is canonical: I with the base-94 digits when it is not
\* negative, U- over the I token of its absolute value when it is; B- I# I$
\* gives U- I".  The run of the rule engine on B<op> a b ends with that term
\* as its root and raises nothing.
C24_CanonicalArithmetic ==
    \A a, b \in -MaxOperand .. MaxOperand : \A op \in {"+", "-", "*", "/", "%"} :
        ( /\ arg = BinProgram(<<op>>, IntTerm(a), IntTerm(b))
          /\ (op \in {"/", "%"} => b # 0)
          /\ out.ret \notin {"none", "True"} )
            => /\ out.ret = "False"
               /\ out.root =
                      alparse(IntTerm(CASE op = "+" -> a + b
                                        [] op = "-" -> a - b
                                        [] op = "*" -> a * b
                                        [] op = "/" -> truncdiv(a, b)
                                        [] op = "%" -> truncmod(a, b))).term

\* C25: for every string s and integer n >= 0, BT n s is the first n
\* characters of s (all of s when n > len(s)) and BD n s is s without them
\* (empty when n > len(s)); BT I$ S4%34 is 'tes' and BD I$ S4%34 is 't'.
\* again.evaluate ends with the S token of that body, l3ng.evaluate returns
\* the decoded string, and neither raises.
C25_TakeDrop ==
    l3src \in SlicePrograms =>
        \* l3src is B<op> n s
        LET op == l3src[1][2]
            n == CHOOSE m \in 0 .. MaxOperand : IntTerm(m) = <<l3src[2]>>
            s == Tail(l3src[3])
        IN  LET k == IF n > Len(s) THEN Len(s) ELSE n
                expected == IF op = "T" THEN [i \in 1 .. k |-> s[i]]
                            ELSE [i \in 1 .. (Len(s) - k) |-> s[k + i]]
            IN  /\ pc # "raise"
                /\ pc = "done" =>
                      heap.token[root] = <<"S">> \o expected /\ heap.children[root] = <<>>
                /\ fns # <<>> => out.t = "str" /\ out.v = decode(expected)
                /\ (n = 3 /\ s = <<"4", "%", "3", "4">>) =>
                      decode(expected) = IF op = "T" THEN <<"t", "e", "s">> ELSE <<"t">>

\* C25: both evaluators returned 'tes' for BT I$ S4%34
C25_Witness ==
    /\ l3src = << <<"B", "T">>, <<"I", "$">>, <<"S", "4", "%", "3", "4">> >>
    /\ pc = "done" /\ heap.token[root] = <<"S", "4", "%", "3">>
    /\ fns = <<"l3ng.evaluate">> /\ out.v = <<"t", "e", "s">>

\* C26: IntToStr is the inverse of StrToInt: U$ U# s evaluates to s for every
\* string s, and U# U$ n to n for every integer n >= 0, so the rules
\* U$ U# x -> x and U# U$ x -> x of the rule engine give the value l3ng.ept
\* gives; U# S4%34 is 15818151.
C26_IntToStrInverse ==
    /\ \A b \in InverseBodies :
          /\ arg = << <<"U", "$">>, <<"U", "#">>, <<"S">> \o b >> =>
                /\ out.ret = "False" => out.root = Leaf(<<"S">> \o b)
                /\ l3pc = "done" => l3out.t = "str" /\ l3out.v = decode(b)
          /\ (b # <<>> /\ arg = << <<"U", "#">>, <<"U", "$">>, <<"I">> \o b >>) =>
                /\ out.ret = "False" =>
                      out.root.tok[1] = "I" /\ c2b94(Tail(out.root.tok)) = c2b94(b)
                /\ l3pc = "done" => l3out.t = "int" /\ l3out.v = c2b94(b)
    /\ l3unary(<<"#">>, PyStr(<<"t", "e", "s", "t">>)) = PyInt(15818151)

\* the literal an operand of type int, bool or str stands for: itself, and F
\* for U! T
OperandValue(x) == IF x = << <<"U", "!">>, <<"T">> >> THEN << <<"F">> >> ELSE x

\* C15: B= applied to two operands that reduce to values of different types
\* (bool vs int, int vs string, bool vs string) is a type error: neither
\* evaluator returns (a boolean, or the term left as it is); both raise.
C15_EqualsTypeError ==
    \A x, y \in Operands :
        ( /\ l3src = BinProgram(<<"=">>, x, y)
          /\ OperandType(x) # "none" /\ OperandType(y) # "none"
          /\ OperandType(x) # OperandType(y) )
            => pc # "done" /\ l3pc # "done"

\* C16: B= applied to two values of the same type (int, bool or string)
\* reduces to T when the two values are equal and to F when they differ: the
\* run of the rule engine on B= x y ends with that boolean as its root.
C16_EqualsSameType ==
    \A x, y \in Operands :
        ( /\ arg = BinProgram(<<"=">>, x, y)
          /\ OperandType(x) # "none"
          /\ OperandType(x) = OperandType(y)
          /\ out.ret \notin {"none", "True"} )
            => /\ out.ret = "False"
               /\ out.root =
                      Leaf(IF OperandValue(x) = OperandValue(y) THEN <<"T">> ELSE <<"F">>)

\* C17: B& and B| are strict: the operator fires only after both operands are
\* booleans, so B& x y and B| x y with an operand that is no boolean never
\* reduce to a boolean, even when the other operand alone would decide the
\* result (B| T x, B& F x).
C17_StrictBooleans ==
    \A op \in {"&", "|"} : \A x, y \in Operands :
        ( /\ arg = BinProgram(<<op>>, x, y)
          /\ OperandType(x) # "bool" \/ OperandType(y) # "bool" )
            => out.root.tok \notin { <<"T">>, <<"F">> }

\* C18: a well-formed program never produces a type error: on a closed,
\* well-typed term no call of again.step raises ValueError or
\* NotImplementedError, also when a lambda body applies B&, B|, BT or BD to its
\* bound variable and the lambda is not applied yet.
C18_NoTypeError == ret \notin {"ValueError", "NotImplementedError"}

\* C20: a variable with no binding is an error: a program B<op> v" y, whose
\* left operand is a free variable that evaluation reaches, makes both
\* evaluators raise; neither returns (the variable, or a term or value built
\* from it).
C20_FreeVariableRaises ==
    \A op \in BinaryBodies \ { <<"$">> } : \A y \in Operands :
        l3src = BinProgram(op, << <<"v", "\"">> >>, y) => pc # "done" /\ l3pc # "done"

----------------------------------------------------------------------------
(* Properties of evaluate called twice *)

\* C21: normal forms are fixed points of evaluation: evaluate applied to the
\* result of evaluate returns that same result and performs no step.  For
\* again.evaluate no call of step of the second run returns True or raises and
\* the heap stays as the first run left it; for l3ng.evaluate the second call
\* returns the value of the first.
C21_NormalFormsFixed ==
    /\ "again.evaluate" \in Range(fns) => heap = arg /\ ret = "False" /\ pc # "raise"
    /\ "l3ng.evaluate" \in Range(fns) => out.t = l3out.t /\ out.v = l3out.v

----------------------------------------------------------------------------
(* Properties of the parsers *)

\* the grammar: T and F with an empty body; I, v and L with a non-empty body;
\* S with any body; U with one of - ! # $; B with one of the 14 operators; ?
\* with an empty body
GrammarToken(token) ==
    LET ind == token[1]
        bd == Tail(token)
    IN  \/ ind \in {"T", "F", "?"} /\ bd = <<>>
        \/ ind \in {"I", "v", "L"} /\ bd # <<>>
        \/ ind = "S"
        \/ ind = "U" /\ bd \in UnaryBodies
        \/ ind = "B" /\ bd \in BinaryBodies

\* the number of subterms that follow a token
GrammarArity(token) ==
    IF token[1] \in {"U", "L"} THEN 1
    ELSE IF token[1] = "B" THEN 2
    ELSE IF token[1] = "?" THEN 3
    ELSE 0

RECURSIVE GrammarTerms(_, _, _)
\* the index after k complete well-formed terms in a row that begin at index
\* i of tokens; 0 when tokens does not hold them
GrammarTerms(tokens, i, k) ==
    IF k = 0 THEN i
    ELSE IF i > Len(tokens) \/ ~ GrammarToken(tokens[i]) THEN 0
    ELSE LET after == GrammarTerms(tokens, i + 1, GrammarArity(tokens[i]))
         IN  IF after = 0 THEN 0 ELSE GrammarTerms(tokens, after, k - 1)

\* tokens begins with a complete well-formed term
BeginsWithTerm(tokens) == GrammarTerms(tokens, 1, 1) # 0

RECURSIVE Placeholders(_)
\* a tree of trans.parse has a missing child (None) or a node of type unknown
Placeholders(node) ==
    \/ node.type \in {"None", "unknown"}
    \/ \E i \in DOMAIN node.children : Placeholders(node.children[i])

\* C19: the parsers accept exactly the grammar: parse returns a term iff the
\* tokens begin with a complete well-formed term; for every other input it
\* fails with an error and never returns a tree with a missing or placeholder
\* child (l3ng.parse, again.parse, trans.parse).
C19_ParsersAcceptGrammar ==
    fns # <<>> =>
        /\ out.err = "none" <=> BeginsWithTerm(arg)
        /\ (fns = <<"trans.parse">> /\ out.err = "none") => ~ Placeholders(out.term)

----------------------------------------------------------------------------
(* Properties of l3ng.ept *)

\* C6: application is non-strict in the recursive evaluator: for every x that
\* evaluates to a value and every y, B$ B$ L# L$ v# x y evaluates to the value
\* of x, and evaluate is never called on y.
C6_UnusedArgumentNotEvaluated ==
    \A i \in DOMAIN L3Xs : \A j \in DOMAIN L3Ys :
        LET x == l3parse(L3Xs[i]).term
            y == l3parse(L3Ys[j]).term
            alone == l3evaluate(x, 1)
        IN  (l3src = C6Program(L3Xs[i], L3Ys[j]) /\ l3pc # "start" /\ alone.t # "raise")
                => /\ l3pc = "done"
                   /\ l3out.t = alone.t
                   /\ l3out.v = alone.v
                   /\ y \notin Range(l3out.calls)


----------------------------------------------------------------------------
(* Properties of the tree of again.py *)

\* the number of children the indicator of a token takes
ArityOf(token) ==
    IF token[1] \in {"U", "L"} THEN 1
    ELSE IF token[1] = "B" THEN 2
    ELSE IF token[1] = "?" THEN 3
    ELSE 0

\* C29: the tree is well formed after parse and after every call of
\* again.step: Node.check passes on the root, the parent of every child is
\* the node whose children list holds it, no node is its own parent or child,
\* T, F, v, I and S nodes have no children, U and L nodes have 1, B nodes 2
\* and ? nodes 3.
C29_WellFormed ==
    /\ check(heap, root) = "None"
    /\ \A node \in TreeNodes(heap, {root}, {}) :
          /\ heap.parent[node] # node
          /\ Len(heap.children[node]) = ArityOf(heap.token[node])
          /\ \A i \in DOMAIN heap.children[node] :
                /\ heap.children[node][i] # node
                /\ heap.parent[heap.children[node][i]] = node

----------------------------------------------------------------------------
(* Properties of parse and unparse *)

RECURSIVE PrefixOrder(_)
RECURSIVE PrefixOrderAll(_)

\* the tokens of the terms, one term after the other
PrefixOrderAll(terms) ==
    IF terms = <<>> THEN <<>> ELSE PrefixOrder(Head(terms)) \o PrefixOrderAll(Tail(terms))

\* the tokens of a term in prefix order: its token, then its subterms from
\* left to right
PrefixOrder(term) == <<term.tok>> \o PrefixOrderAll(term.args)

RECURSIVE TermArities(_)
\* every U and L of the term has 1 subterm, every B 2, every ? 3, and every
\* other token none
TermArities(term) ==
    /\ Len(term.args) = ArityOf(term.tok)
    /\ \A i \in DOMAIN term.args : TermArities(term.args[i])

\* what parse returned: out, or the parsed field of out after unparse
Parsed == IF Len(fns) = 1 THEN out ELSE out.parsed

\* C30: parse consumes exactly one term in prefix order and is reversible.
\* Where parse of l3ng or l4ng returns, the tree has 1 subterm at U and L, 2
\* at B (left, then right) and 3 at ?, its tokens in prefix order followed by
\* the remainder are the token list given, and unparse of the tree and the
\* remainder returns that list.
C30_ParseUnparse ==
    (fns # <<>> /\ Parsed.err = "none") =>
        /\ TermArities(Parsed.term)
        /\ PrefixOrder(Parsed.term) \o Parsed.rest = arg
        /\ Len(fns) = 2 => out.err = "none" /\ out.tokens = arg

\* B$ L" v" I! v" parsed by l4ng.parse: the tree of B$ with the lambda on the
\* left and I! on the right, the last v" left over, and unparse gives the list
C30_Witness ==
    /\ arg = << <<"B", "$">>, <<"L", "\"">>, <<"v", "\"">>, <<"I", "!">>, <<"v", "\"">> >>
    /\ fns = <<"l4ng.parse", "l4ng.unparse">>
    /\ out.parsed.term = Tuple(<<"B", "$">>,
                               << Tuple(<<"L", "\"">>, <<Leaf(<<"v", "\"">>)>>),
                                  Leaf(<<"I", "!">>) >>)
    /\ out.parsed.rest = << <<"v", "\"">> >>
    /\ out.tokens = arg

----------------------------------------------------------------------------
(* Properties of the integer nodes of again.py *)

\* an I token with at least one digit, and with the single digit ! when it
\* is zero
CanonicalInt(token) ==
    /\ Len(token) > 1
    /\ c2b94(Tail(token)) = 0 => token = <<"I", "!">>

\* C28: in every tree reached from a parsed program by calls of again.step
\* every integer node has a non-empty body, and zero is the single digit !:
\* no step produces the token I with an empty body, U# of the empty string
\* included.  The programs are those whose own I tokens are of that form.
C28_IntegerBodies ==
    (\A i \in DOMAIN l3src : l3src[i][1] = "I" => CanonicalInt(l3src[i])) =>
        \A node \in TreeNodes(heap, {root}, {}) :
            indicator(heap, node) = "I" => CanonicalInt(heap.token[node])

----------------------------------------------------------------------------
(* Properties of the Lambda-Man simulators *)

\* the square next to Lambda in the direction is a wall, or is off the grid
IntoWall(grid, direction) ==
    LET x == LambdaAt(grid)[1] + (CASE direction = "U" -> -1 [] direction = "D" -> 1
                                    [] OTHER -> 0)
        y == LambdaAt(grid)[2] + (CASE direction = "L" -> -1 [] direction = "R" -> 1
                                    [] OTHER -> 0)
    IN \/ x < 0 \/ x >= height(grid) \/ y < 0 \/ y >= width(grid)
       \/ grid[x + 1][y + 1] = "#"

\* C27: an instruction that would move Lambda-Man into a wall or off the grid
\* is skipped: step returns normally, and the grid, the position of Lambda,
\* the remaining pills and the solution are unchanged, in Level and in
\* LambdaMan alike.
C27_WallSkipped ==
    [][ /\ (fns' = Append(fns, "Level.step") /\ IntoWall(out.level.grid, arg'[1])) =>
              /\ out'.ret = "None"
              /\ out'.level = out.level
              /\ LambdaAt(out'.level.grid) = LambdaAt(out.level.grid)
              /\ remaining(out'.level.grid) = remaining(out.level.grid)
        /\ (fns' = Append(fns, "LambdaMan.step") /\ IntoWall(out.lambdaman.grid, arg'[1])) =>
              /\ out'.ret = "None"
              /\ out'.lambdaman = out.lambdaman
              /\ LambdaAt(out'.lambdaman.grid) = LambdaAt(out.lambdaman.grid)
              /\ remaining(out'.lambdaman.grid) = remaining(out.lambdaman.grid) ]_vars

====
